---- MODULE Spec2Model ----
(***************************************************************************)
(* Egress control agent: PolicyValidator, AWSServiceResolver, EgressAgent  *)
(* (egress-agent/src/egress_agent.py).  The reconciliation loop is modelled *)
(* as a state machine over the watch stream and the cluster's              *)
(* NetworkPolicy objects; validation, resolution and translation are       *)
(* operators computed the way the code computes them.  Spec is one watch   *)
(* stream, DaemonSpec adds main()'s restarts of the watch, GateSpec is the *)
(* admission webhook (egress-agent/src/webhook_server.py).  ValidatorSpec  *)
(* is one call of PolicyValidator.validate, ResolverSpec a run of calls of *)
(* AWSServiceResolver.resolve_service_cidrs by one caller, ConcurrentSpec  *)
(* the same calls made by several threads, RefreshSpec calls made after a  *)
(* request that failed.  TranslateSpec is one document sent to the webhook *)
(* and then handed to generate_network_policy, HealthSpec one call of      *)
(* calculate_health_score (src/security_agent.py).                         *)
(***************************************************************************)
EXTENDS Integers, Sequences, FiniteSets, TLC

VARIABLES
    docs,       \* ConfigMaps in the cluster: document id -> [present, data]
    netpols,    \* NetworkPolicy objects in the cluster (set of objects)
    stream,     \* events delivered by the watch and not yet consumed
    arrived,    \* number of events the watch has delivered so far
    dry_run,    \* EgressAgent.dry_run
    resolver,   \* AWSServiceResolver: [cache, last_fetch]
    now,        \* time.time()
    pc,         \* position of the agent's single thread
    cur,        \* the event process_configmap_event is (or was last) called with
    out,        \* what generate_network_policy did for cur
    inflight,   \* cluster API calls issued and not yet completed
    calls,      \* cluster API calls completed for cur, in order
    before,     \* netpols when cur was taken from the stream
    prev,       \* summary of the event processed before cur
    failures,   \* number of cluster API failures injected so far
    rejected,   \* number of delivered events whose payload does not translate
    slept,      \* a time.sleep has ended since the watch stream was last opened
    opened,     \* how the current stream was opened: first, after sleep, at once
    gate,       \* webhook: each worker's invocation of validate_configmap
    errs,       \* webhook: the `errors` lists of PolicyValidator.validate
    subject,    \* the policy PolicyValidator.validate is called with
    verdict,    \* the ValidationResult it returned
    request,    \* the last call of resolve_service_cidrs, with what it did
    fetched_at, \* cache key -> time its cache entry was fetched
    callers,    \* concurrent calls of resolve_service_cidrs, step by step
    document,   \* the ConfigMap handed to generate_network_policy and to the webhook
    translated, \* what generate_network_policy did for it
    twin,       \* what it did for the same policy under each defaultAction
    counts,     \* the arguments of calculate_health_score
    score       \* what calculate_health_score returned

daemonVars == <<slept, opened>>

gateVars == <<gate, errs>>

validatorVars == <<subject, verdict>>

resolverVars == <<request, fetched_at, callers>>

unitVars == <<document, translated, twin, counts, score>>

vars == <<docs, netpols, stream, arrived, dry_run, resolver, now, pc, cur, out,
          inflight, calls, before, prev, failures, rejected, daemonVars, gateVars,
          validatorVars, resolverVars, unitVars>>

(***************************************************************************)
(* Bounds of the model.                                                    *)
(***************************************************************************)
MaxEvents == 3      \* events the watch delivers in one run
MaxFailures == 1    \* cluster API calls that fail (other than "not found")
MaxWorkers == 2     \* webhook requests handled at the same time
MaxDestinations == 2 \* destinations of a policy handed to the validator
MaxTicks == 3       \* half hours that pass while the resolver is called
MaxCallers == 2     \* threads that call the resolver at the same time
MaxCount == 10      \* findings of one severity handed to calculate_health_score

(***************************************************************************)
(* Small helpers for Python dicts and lists.                               *)
(***************************************************************************)
EmptyDict == <<>>

Has(d, k) == k \in DOMAIN d

Get(d, k, default) == IF k \in DOMAIN d THEN d[k] ELSE default

(***************************************************************************)
(* Text of a policy.json payload.  A text is blank or not, and json.loads  *)
(* either raises JSONDecodeError or yields a JSON value, which is an       *)
(* object (a dict) or something else (a list, a number, ...).              *)
(***************************************************************************)
NoJson == [ok |-> FALSE]

JsonObject(fields) == [ok |-> TRUE, isobj |-> TRUE, obj |-> fields]

JsonOther == [ok |-> TRUE, isobj |-> FALSE]

Text(json) == [blank |-> FALSE, json |-> json]

BlankText == [blank |-> TRUE, json |-> NoJson]

EmptyObjectText == Text(JsonObject(EmptyDict))

JsonLoads(text) == text.json

JsonList(items) == [list |-> TRUE, items |-> items]

NotAList == [list |-> FALSE]

(***************************************************************************)
(* CIDR text "a.b.c.d/p" is kept as its parts; ipaddress.ip_network with   *)
(* strict=False accepts it when every octet and the prefix are in range.   *)
(***************************************************************************)
Cidr(a, b, c, d, p) == [addr |-> <<a, b, c, d>>, prefix |-> p]

NotACidr == [addr |-> <<>>, prefix |-> 0]

IpNetworkOk(c) ==
    /\ Len(c.addr) = 4
    /\ \A i \in 1..4 : c.addr[i] \in 0..255
    /\ c.prefix \in 0..32

\* the text of a CIDR, as an f-string prints it
CidrText(c) ==
    IF Len(c.addr) = 4
    THEN ToString(c.addr[1]) \o "." \o ToString(c.addr[2]) \o "."
         \o ToString(c.addr[3]) \o "." \o ToString(c.addr[4]) \o "/"
         \o ToString(c.prefix)
    ELSE "not-a-cidr"

\* str.lower() taken literally: the text is left as it is written
LowerLeavesCase(s) == s

Lower(s) ==
    CASE s = "S3" -> "s3"
      [] s = "RDS" -> "rds"
      [] s = "EC2" -> "ec2"
      [] s = "DynamoDB" -> "dynamodb"
      [] s = "FTP" -> "ftp"
      [] OTHER -> s

Upper(s) ==
    CASE s = "s3" -> "S3"
      [] s = "rds" -> "RDS"
      [] s = "ec2" -> "EC2"
      [] OTHER -> s

(***************************************************************************)
(* PolicyValidator                                                         *)
(***************************************************************************)
VALID_AWS_SERVICES == {"s3", "rds", "ec2", "dynamodb", "lambda", "ecs"}

\* a comparison that ignored case would accept these as well
VALID_ACTIONS_ANY_CASE == {"allow", "deny", "Allow", "Deny", "ALLOW", "DENY"}

VALID_ACTIONS == {"allow", "deny"}

Err(index, what) == [dest |-> index, what |-> what]

ErrIf(cond, index, what) == IF cond THEN <<Err(index, what)>> ELSE <<>>

\* dest.get(k) is truthy: a non-empty string, a non-empty list
TruthyStr(d, k) == Has(d, k) /\ d[k] # ""

TruthySeq(d, k) == Has(d, k) /\ Len(d[k]) > 0

\* a _validate_destination that returned at its first error
ValidateDestinationFirstError(dest, index) ==
    IF ~TruthyStr(dest, "name") THEN <<Err(index, "missing 'name' field")>>
    ELSE IF ~TruthySeq(dest, "ports") THEN <<Err(index, "missing 'ports' field")>>
    ELSE IF ~(Has(dest, "cidr") \/ Has(dest, "awsService"))
    THEN <<Err(index, "must specify either 'cidr' or 'awsService'")>>
    ELSE IF Has(dest, "cidr") /\ Has(dest, "awsService")
    THEN <<Err(index, "cannot specify both 'cidr' and 'awsService'")>>
    ELSE IF Has(dest, "cidr")
    THEN ErrIf(~IpNetworkOk(dest["cidr"]), index,
               "Invalid CIDR format: " \o CidrText(dest["cidr"]))
    ELSE IF Lower(dest["awsService"]) \notin VALID_AWS_SERVICES
    THEN <<Err(index, "Invalid AWS service: " \o Lower(dest["awsService"]))>>
    ELSE ErrIf(~TruthySeq(dest, "regions"), index,
               "AWS service requires 'regions' field")

\* a _validate_destination without the check of line 69-70: cidr wins
ValidateDestinationCidrWins(dest, index) ==
    LET has_cidr == Has(dest, "cidr")
        has_aws_service == Has(dest, "awsService") /\ ~has_cidr
    IN  ErrIf(~TruthyStr(dest, "name"), index, "missing 'name' field")
        \o ErrIf(~TruthySeq(dest, "ports"), index, "missing 'ports' field")
        \o ErrIf(~(has_cidr \/ has_aws_service), index,
                 "must specify either 'cidr' or 'awsService'")
        \o (IF has_cidr
            THEN ErrIf(~IpNetworkOk(dest["cidr"]), index,
                       "Invalid CIDR format: " \o CidrText(dest["cidr"]))
            ELSE <<>>)
        \o (IF has_aws_service
            THEN ErrIf(Lower(dest["awsService"]) \notin VALID_AWS_SERVICES, index,
                       "Invalid AWS service: " \o Lower(dest["awsService"]))
                 \o ErrIf(~TruthySeq(dest, "regions"), index,
                          "AWS service requires 'regions' field")
            ELSE <<>>)

\* _validate_destination: the errors it appends for destination `index`
ValidateDestination(dest, index) ==
    LET has_cidr == Has(dest, "cidr")
        has_aws_service == Has(dest, "awsService")
    IN  ErrIf(~TruthyStr(dest, "name"), index, "missing 'name' field")
        \o ErrIf(~TruthySeq(dest, "ports"), index, "missing 'ports' field")
        \o ErrIf(~(has_cidr \/ has_aws_service), index,
                 "must specify either 'cidr' or 'awsService'")
        \o ErrIf(has_cidr /\ has_aws_service, index,
                 "cannot specify both 'cidr' and 'awsService'")
        \o (IF has_cidr
            THEN ErrIf(~IpNetworkOk(dest["cidr"]), index,
                       "Invalid CIDR format: " \o CidrText(dest["cidr"]))
            ELSE <<>>)
        \o (IF has_aws_service
            THEN ErrIf(Lower(dest["awsService"]) \notin VALID_AWS_SERVICES, index,
                       "Invalid AWS service: " \o Lower(dest["awsService"]))
                 \o ErrIf(~TruthySeq(dest, "regions"), index,
                          "AWS service requires 'regions' field")
            ELSE <<>>)

RECURSIVE ValidateDestinations(_, _)
ValidateDestinations(items, i) ==
    IF i > Len(items) THEN <<>>
    ELSE ValidateDestination(items[i], i - 1) \o ValidateDestinations(items, i + 1)

\* validate: ValidationResult(is_valid, errors)
Validate(policy) ==
    LET default_action == Get(policy, "defaultAction", "deny")
        e1 == ErrIf(default_action \notin VALID_ACTIONS, -1,
                    "Invalid defaultAction: " \o default_action)
        destinations == Get(policy, "allowedDestinations", JsonList(<<>>))
    IN  IF ~destinations.list
        THEN [is_valid |-> FALSE,
              errors |-> e1 \o <<Err(-1, "allowedDestinations must be a list")>>]
        ELSE LET errors == e1 \o ValidateDestinations(destinations.items, 1)
             IN  [is_valid |-> Len(errors) = 0, errors |-> errors]

(***************************************************************************)
(* AWSServiceResolver                                                      *)
(***************************************************************************)
CacheTtl == 3600

\* sorted(regions): region names in ascending (lexicographic) order
RegionOrder == <<"eu-west-1", "us-east-1", "us-west-2">>

Rank(r) == CHOOSE i \in 1..Len(RegionOrder) : RegionOrder[i] = r

RECURSIVE Insert(_, _)
Insert(sorted, r) ==
    IF sorted = <<>> THEN <<r>>
    ELSE IF Rank(r) < Rank(Head(sorted)) THEN <<r>> \o sorted
    ELSE <<Head(sorted)>> \o Insert(Tail(sorted), r)

RECURSIVE Sorted(_)
Sorted(regions) ==
    IF regions = <<>> THEN <<>>
    ELSE Insert(Sorted(SubSeq(regions, 1, Len(regions) - 1)), regions[Len(regions)])

InSeq(x, s) == \E i \in 1..Len(s) : s[i] = x

\* ','.join(list)
RECURSIVE JoinComma(_)
JoinComma(list) ==
    IF list = <<>> THEN ""
    ELSE IF Len(list) = 1 THEN list[1]
    ELSE list[1] \o "," \o JoinComma(Tail(list))

\* a cache key made of the regions in the order they are given
CacheKeyAsGiven(service, regions) == service \o ":" \o JoinComma(regions)

\* f"{service}:{','.join(sorted(regions))}"
CacheKey(service, regions) == service \o ":" \o JoinComma(Sorted(regions))

\* a fetch of ip-ranges.json either fails or yields the table of prefixes
FetchFailed == [ok |-> FALSE]

Fetched(prefixes) == [ok |-> TRUE, prefixes |-> prefixes]

RECURSIVE FilterPrefixes(_, _, _)
FilterPrefixes(prefixes, service_upper, regions) ==
    IF prefixes = <<>> THEN <<>>
    ELSE LET p == Head(prefixes)
             rest == FilterPrefixes(Tail(prefixes), service_upper, regions)
         IN  IF Has(p, "service") /\ p.service = service_upper
                /\ Has(p, "region") /\ InSeq(p.region, regions)
             THEN <<p.ip_prefix>> \o rest
             ELSE rest

\* the loop over the prefixes raises KeyError: an entry that matches has no
\* 'ip_prefix'
FilterRaises(prefixes, service_upper, regions) ==
    \E i \in 1..Len(prefixes) :
        /\ Has(prefixes[i], "service") /\ prefixes[i].service = service_upper
        /\ Has(prefixes[i], "region") /\ InSeq(prefixes[i].region, regions)
        /\ ~Has(prefixes[i], "ip_prefix")

\* the try block raises: the request, raise_for_status or response.json()
\* fails, or the loop does
FetchRaises(fetch, service_upper, regions) ==
    ~fetch.ok \/ FilterRaises(fetch.prefixes, service_upper, regions)

\* an except branch that fell back on the entry it has, however old
OnFetchFailureServeStale(rs, cache_key) ==
    [cidrs |-> Get(rs.cache, cache_key, <<>>), rs |-> rs, fetched |-> TRUE]

\* the except branch: the error is logged and [] returned
OnFetchFailure(rs, cache_key) == [cidrs |-> <<>>, rs |-> rs, fetched |-> TRUE]

\* a resolver that never looked at its cache
ResolveServiceCidrsNoCache(rs, service, regions, t, fetch) ==
    LET cache_key == CacheKey(service, regions)
    IN  IF FetchRaises(fetch, Upper(service), regions)
        THEN OnFetchFailure(rs, cache_key)
        ELSE LET cidrs == FilterPrefixes(fetch.prefixes, Upper(service), regions)
             IN  [cidrs |-> cidrs,
                  rs |-> [cache |-> (cache_key :> cidrs) @@ rs.cache,
                          last_fetch |-> t],
                  fetched |-> TRUE]

\* resolve_service_cidrs on resolver state rs at time t; `fetch` is what the
\* HTTP request yields if one is made
ResolveServiceCidrs(rs, service, regions, t, fetch) ==
    LET cache_key == CacheKey(service, regions)
    IN  IF Has(rs.cache, cache_key) /\ (t - rs.last_fetch) < CacheTtl
        THEN [cidrs |-> rs.cache[cache_key], rs |-> rs, fetched |-> FALSE]
        ELSE IF FetchRaises(fetch, Upper(service), regions)
        THEN OnFetchFailure(rs, cache_key)
        ELSE LET cidrs == FilterPrefixes(fetch.prefixes, Upper(service), regions)
             IN  [cidrs |-> cidrs,
                  rs |-> [cache |-> (cache_key :> cidrs) @@ rs.cache,
                          last_fetch |-> t],
                  fetched |-> TRUE]

(***************************************************************************)
(* EgressAgent: translation                                                *)
(***************************************************************************)
GeneratedName == "egress-policy-generated"

None == [some |-> FALSE]

Some(v) == [some |-> TRUE, val |-> v]

RECURSIVE PortList(_)
PortList(ports) ==
    IF ports = <<>> THEN <<>>
    ELSE <<[protocol |-> "TCP", port |-> Head(ports)]>> \o PortList(Tail(ports))

\* a rule that let every port through
EgressRuleAnyPort(cidr, ports) == [to |-> <<[ipBlock |-> [cidr |-> cidr]]>>, ports |-> <<>>]

EgressRule(cidr, ports) == [to |-> <<[ipBlock |-> [cidr |-> cidr]]>>, ports |-> ports]

\* a _create_egress_rule that took the last resolved address
CreateEgressRuleLastAddress(destination, rs, t, fetch) ==
    LET ports == PortList(Get(destination, "ports", <<>>))
    IN  IF Has(destination, "cidr")
        THEN [rule |-> Some(EgressRule(destination["cidr"], ports)),
              rs |-> rs, fetches |-> 0, resolves |-> 0]
        ELSE IF Has(destination, "awsService")
        THEN LET r == ResolveServiceCidrs(rs, Lower(destination["awsService"]),
                                          Get(destination, "regions", <<>>), t, fetch)
             IN  [rule |-> IF r.cidrs = <<>> THEN None
                           ELSE Some(EgressRule(r.cidrs[Len(r.cidrs)], ports)),
                  rs |-> r.rs,
                  fetches |-> IF r.fetched THEN 1 ELSE 0,
                  resolves |-> 1]
        ELSE [rule |-> None, rs |-> rs, fetches |-> 0, resolves |-> 0]

\* _create_egress_rule: [rule, rs, fetches, resolves]; fetches = HTTP requests made
CreateEgressRule(destination, rs, t, fetch) ==
    LET ports == PortList(Get(destination, "ports", <<>>))
    IN  IF Has(destination, "cidr")
        THEN [rule |-> Some(EgressRule(destination["cidr"], ports)),
              rs |-> rs, fetches |-> 0, resolves |-> 0]
        ELSE IF Has(destination, "awsService")
        THEN LET r == ResolveServiceCidrs(rs, Lower(destination["awsService"]),
                                          Get(destination, "regions", <<>>), t, fetch)
             IN  [rule |-> IF r.cidrs = <<>> THEN None
                           ELSE Some(EgressRule(r.cidrs[1], ports)),
                  rs |-> r.rs,
                  fetches |-> IF r.fetched THEN 1 ELSE 0,
                  resolves |-> 1]
        ELSE [rule |-> None, rs |-> rs, fetches |-> 0, resolves |-> 0]

\* a loop that puts each rule in front of the rules made so far
RECURSIVE ProcessDestinationsReversed(_, _, _, _, _)
ProcessDestinationsReversed(items, i, rs, t, fetches) ==
    IF i > Len(items)
    THEN [egress |-> <<>>, rs |-> rs, fetches |-> 0, resolves |-> 0]
    ELSE LET one == CreateEgressRule(items[i], rs, t, fetches[i])
             rest == ProcessDestinationsReversed(items, i + 1, one.rs, t, fetches)
         IN  [egress |-> rest.egress
                         \o (IF one.rule.some THEN <<one.rule.val>> ELSE <<>>),
              rs |-> rest.rs,
              fetches |-> one.fetches + rest.fetches,
              resolves |-> one.resolves + rest.resolves]

\* the loop over allowedDestinations; fetches[i] is the answer the i-th
\* destination gets if it makes an HTTP request
RECURSIVE ProcessDestinations(_, _, _, _, _)
ProcessDestinations(items, i, rs, t, fetches) ==
    IF i > Len(items)
    THEN [egress |-> <<>>, rs |-> rs, fetches |-> 0, resolves |-> 0]
    ELSE LET one == CreateEgressRule(items[i], rs, t, fetches[i])
             rest == ProcessDestinations(items, i + 1, one.rs, t, fetches)
         IN  [egress |-> (IF one.rule.some THEN <<one.rule.val>> ELSE <<>>)
                         \o rest.egress,
              rs |-> rest.rs,
              fetches |-> one.fetches + rest.fetches,
              resolves |-> one.resolves + rest.resolves]

\* mutant: the object is named after its content instead of the fixed name
NetworkPolicyNamedByRules(name, namespace, egress) ==
    [metadata |-> [name |-> IF egress = <<>> THEN name ELSE "egress-policy-rules",
                   namespace |-> namespace,
                   labels |-> [managed_by |-> "egress-agent"]],
     spec |-> [podSelector |-> EmptyDict, policyTypes |-> <<"Egress">>,
               egress |-> egress]]

NetworkPolicy(name, namespace, egress) ==
    [metadata |-> [name |-> name, namespace |-> namespace,
                   labels |-> [managed_by |-> "egress-agent"]],
     spec |-> [podSelector |-> EmptyDict, policyTypes |-> <<"Egress">>,
               egress |-> egress]]

Raised(kind, rs) ==
    [raised |-> kind, np |-> None, rs |-> rs, fetches |-> 0, resolves |-> 0]

\* mutant: the validation result is not looked at
PolicyAcceptedAlways(policy) == TRUE

\* a translation that went on whenever allowedDestinations is a list
PolicyAcceptedIfListed(policy) == Get(policy, "allowedDestinations", JsonList(<<>>)).list

\* generate_network_policy goes on when validation.is_valid
PolicyAccepted(policy) == Validate(policy).is_valid

\* a translation that opened every destination when defaultAction is allow
GenerateNetworkPolicyAllowAll(namespace, policy_data, rs, t, fetches) ==
    LET policy_json == Get(policy_data, "policy.json", EmptyObjectText)
        parsed == JsonLoads(policy_json)
    IN  IF ~parsed.ok THEN Raised("ValueError", rs)
        ELSE IF ~parsed.isobj THEN Raised("AttributeError", rs)
        ELSE IF ~PolicyAccepted(parsed.obj) THEN Raised("ValueError", rs)
        ELSE LET dests == Get(parsed.obj, "allowedDestinations", JsonList(<<>>)).items
                 d == ProcessDestinations(dests, 1, rs, t, fetches)
                 open == IF Get(parsed.obj, "defaultAction", "deny") = "allow"
                         THEN <<EmptyDict>> ELSE <<>>
             IN  [raised |-> "",
                  np |-> Some(NetworkPolicy(GeneratedName, namespace, d.egress \o open)),
                  rs |-> d.rs, fetches |-> d.fetches, resolves |-> d.resolves]

\* generate_network_policy: raised = "" when it returns the NetworkPolicy np
GenerateNetworkPolicy(namespace, policy_data, rs, t, fetches) ==
    LET policy_json == Get(policy_data, "policy.json", EmptyObjectText)
        parsed == JsonLoads(policy_json)
    IN  IF ~parsed.ok THEN Raised("ValueError", rs)
        ELSE IF ~parsed.isobj THEN Raised("AttributeError", rs)
        ELSE IF ~PolicyAccepted(parsed.obj) THEN Raised("ValueError", rs)
        ELSE LET dests == Get(parsed.obj, "allowedDestinations", JsonList(<<>>)).items
                 d == ProcessDestinations(dests, 1, rs, t, fetches)
             IN  [raised |-> "",
                  np |-> Some(NetworkPolicy(GeneratedName, namespace, d.egress)),
                  rs |-> d.rs, fetches |-> d.fetches, resolves |-> d.resolves]

(***************************************************************************)
(* The environment: tenants, their documents and the address-range source  *)
(***************************************************************************)
ManagedLabels == ("egress-controller" :> "managed")

NoLabels == EmptyDict

DocId(namespace, name) == [namespace |-> namespace, name |-> name]

DocIds == {DocId("tenant-a", "egress-policy"), DocId("tenant-a", "egress-extra"),
           DocId("tenant-a", "app-config"), DocId("tenant-b", "egress-policy")}

Namespaces == {id.namespace : id \in DocIds}

LabelsOf(id) == IF id.name = "app-config" THEN NoLabels ELSE ManagedLabels

CidrPolicyText ==
    Text(JsonObject([defaultAction |-> "deny",
                     allowedDestinations |-> JsonList(<<
                         [name |-> "onprem-db", cidr |-> Cidr(10, 1, 100, 0, 24),
                          ports |-> <<5432>>] >>)]))

ServicePolicyText ==
    Text(JsonObject([defaultAction |-> "deny",
                     allowedDestinations |-> JsonList(<<
                         [name |-> "s3-access", awsService |-> "s3",
                          regions |-> <<"us-east-1">>, ports |-> <<443>>] >>)]))

RejectedPolicyText ==
    Text(JsonObject([allowedDestinations |-> JsonList(<<
                         [cidr |-> Cidr(10, 1, 0, 0, 16)] >>)]))

GarbageText == Text(NoJson)

PolicyTexts == {CidrPolicyText, ServicePolicyText, RejectedPolicyText, GarbageText}

\* the payloads a tenant writes into each document
TextsOf(id) ==
    IF id = DocId("tenant-a", "egress-policy") THEN PolicyTexts ELSE {CidrPolicyText}

IpRanges ==
    << [ip_prefix |-> Cidr(52, 216, 0, 0, 15), region |-> "us-east-1", service |-> "S3"],
       [ip_prefix |-> Cidr(54, 231, 0, 0, 17), region |-> "us-east-1", service |-> "S3"],
       [ip_prefix |-> Cidr(3, 5, 0, 0, 19), region |-> "us-west-2", service |-> "EC2"] >>

FetchOutcomes == {FetchFailed, Fetched(IpRanges)}

ConfigMap(id, labels, text) ==
    [metadata |-> [name |-> id.name, namespace |-> id.namespace, labels |-> labels],
     data |-> ("policy.json" :> text)]

Event(seq, type, object) == [seq |-> seq, type |-> type, object |-> object]

\* the payload parses to an object that PolicyValidator accepts
Translates(policy_data) ==
    LET parsed == JsonLoads(Get(policy_data, "policy.json", EmptyObjectText))
    IN  parsed.ok /\ parsed.isobj /\ Validate(parsed.obj).is_valid

\* the watch delivers the event for a change of a document
Deliver(type, object) ==
    /\ arrived < MaxEvents
    /\ arrived' = arrived + 1
    /\ stream' = Append(stream, Event(arrived + 1, type, object))
    /\ rejected' = IF type # "DELETED" /\ ~Translates(object.data)
                   THEN rejected + 1 ELSE rejected

TenantCreate(id, text) ==
    /\ ~docs[id].some
    /\ docs' = [docs EXCEPT ![id] = Some(ConfigMap(id, LabelsOf(id), text))]
    /\ Deliver("ADDED", docs'[id].val)
    /\ UNCHANGED <<netpols, dry_run, resolver, now, pc, cur, out, inflight, calls,
                   before, prev, failures>>
    /\ UNCHANGED <<daemonVars, gateVars, validatorVars, resolverVars, unitVars>>

TenantUpdate(id, text) ==
    /\ docs[id].some
    /\ docs' = [docs EXCEPT ![id] = Some(ConfigMap(id, LabelsOf(id), text))]
    /\ Deliver("MODIFIED", docs'[id].val)
    /\ UNCHANGED <<netpols, dry_run, resolver, now, pc, cur, out, inflight, calls,
                   before, prev, failures>>
    /\ UNCHANGED <<daemonVars, gateVars, validatorVars, resolverVars, unitVars>>

TenantDelete(id) ==
    /\ docs[id].some
    /\ docs' = [docs EXCEPT ![id] = None]
    /\ Deliver("DELETED", docs[id].val)
    /\ UNCHANGED <<netpols, dry_run, resolver, now, pc, cur, out, inflight, calls,
                   before, prev, failures>>
    /\ UNCHANGED <<daemonVars, gateVars, validatorVars, resolverVars, unitVars>>

(***************************************************************************)
(* The cluster API for NetworkPolicy objects, keyed by namespace and name  *)
(***************************************************************************)
Key(np) == <<np.metadata.namespace, np.metadata.name>>

Stored(namespace, name) == {np \in netpols : Key(np) = <<namespace, name>>}

Exists(namespace, name) == Stored(namespace, name) # {}

\* a call that went to one namespace, whatever namespace the document is in
CallInOneNamespace(op, namespace, name, body, seq) ==
    [op |-> op, namespace |-> "tenant-a", name |-> name, body |-> body, seq |-> seq]

Call(op, namespace, name, body, seq) ==
    [op |-> op, namespace |-> namespace, name |-> name, body |-> body, seq |-> seq]

\* what the API server answers when it serves the call
Served(c) ==
    CASE c.op = "create" -> IF Exists(c.namespace, c.name) THEN "409" ELSE "ok"
      [] OTHER -> IF Exists(c.namespace, c.name) THEN "ok" ELSE "404"

\* the answers a call can get: served, or failed (an ApiException with another
\* status, or an exception of another class such as a connection error)
Answers(c) ==
    {Served(c)} \cup (IF failures < MaxFailures THEN {"500", "Exception"} ELSE {})

IsFailure(res) == res \in {"500", "Exception"}

\* the cluster's objects after call c got answer res
Effect(c, res) ==
    IF res # "ok" THEN netpols
    ELSE CASE c.op = "create" -> netpols \cup {c.body.val}
           [] c.op = "patch" ->
                (netpols \ Stored(c.namespace, c.name)) \cup {c.body.val}
           [] c.op = "delete" -> netpols \ Stored(c.namespace, c.name)
           [] OTHER -> netpols

Completed(c, res) ==
    [op |-> c.op, namespace |-> c.namespace, name |-> c.name, res |-> res,
     seq |-> c.seq]

(***************************************************************************)
(* EgressAgent: the reconciliation loop                                    *)
(***************************************************************************)
NotRun == [ran |-> FALSE, raised |-> "", np |-> None, fetches |-> 0, resolves |-> 0]

Ran(g) == [ran |-> TRUE, raised |-> g.raised, np |-> g.np, fetches |-> g.fetches,
           resolves |-> g.resolves]

\* one answer of the address-range source for each destination of the payload
DestinationCount(policy_data) ==
    LET parsed == JsonLoads(Get(policy_data, "policy.json", EmptyObjectText))
    IN  IF parsed.ok /\ parsed.isobj /\ Has(parsed.obj, "allowedDestinations")
           /\ parsed.obj["allowedDestinations"].list
        THEN Len(parsed.obj["allowedDestinations"].items)
        ELSE 0

FetchPlans(policy_data) == [1..DestinationCount(policy_data) -> FetchOutcomes]

\* the handler is back in start_watching, at the head of `for event in stream`
Return ==
    /\ pc' = "watching"
    /\ inflight' = inflight

\* mutant: the call is started and the handler returns without its answer
IssueAsync(c) ==
    /\ pc' = "watching"
    /\ inflight' = inflight \cup {c}

\* the handler makes a blocking cluster call and waits for its answer
Issue(c) ==
    /\ pc' = c.op
    /\ inflight' = inflight \cup {c}

\* mutant: the label is not looked at
IsManagedAlways(labels) == TRUE

\* labels.get('egress-controller') == 'managed'
IsManaged(labels) == Get(labels, "egress-controller", "") = "managed"

\* apply_network_policy returns before any cluster call when self.dry_run
ApplySuppressed == dry_run

\* mutant: the DELETED branch deletes in dry-run mode too
DeleteNeverSuppressed == FALSE

\* the DELETED branch makes its delete call only if not self.dry_run
DeleteSuppressed == dry_run

\* mutant: the DELETED branch deletes an object named like the document
DeleteTargetDocument == "egress-policy"

\* the name the DELETED branch deletes
DeleteTarget == GeneratedName

\* mutant: a rule set that is not found is not created
AfterReadNoCreate(res) == IF res = "ok" THEN "patch" ELSE "return"

\* mutant: the rule set is created whether or not the read found one
AfterReadAlwaysCreate(res) == IF res \in {"ok", "404"} THEN "create" ELSE "return"

\* apply_network_policy: what follows the answer to the read
AfterRead(res) ==
    CASE res = "ok" -> "patch"
      [] res = "404" -> "create"
      [] OTHER -> "return"

\* apply_network_policy: what follows the answer to the patch
AfterPatch(res) == IF res = "404" THEN "create" ELSE "return"

\* the DELETED branch: where the thread is once the delete is answered
AfterDelete(res) == IF res = "Exception" THEN "sleep" ELSE "watching"

\* process_configmap_event, up to its first cluster call
ProcessConfigmapEvent(event) ==
    LET metadata == event.object.metadata
        namespace == metadata.namespace
        labels == metadata.labels
    IN  IF ~IsManaged(labels)
        THEN /\ out' = NotRun
             /\ resolver' = resolver
             /\ Return
        ELSE IF event.type \in {"ADDED", "MODIFIED"}
        THEN \E fetches \in FetchPlans(event.object.data) :
                LET g == GenerateNetworkPolicy(namespace, event.object.data,
                                               resolver, now, fetches)
                IN  /\ out' = Ran(g)
                    /\ resolver' = g.rs
                    /\ IF g.raised # "" \/ ApplySuppressed
                       THEN Return
                       ELSE Issue(Call("read", g.np.val.metadata.namespace,
                                       g.np.val.metadata.name, None, event.seq))
        ELSE /\ out' = NotRun
             /\ resolver' = resolver
             /\ IF DeleteSuppressed
                THEN Return
                ELSE Issue(Call("delete", namespace, DeleteTarget, None, event.seq))

\* mutant: the next event is handled while the previous handler is still running
HandlerAnyTime == pc # "sleep"

\* start_watching calls the handler for the next event only after the call for
\* the previous one has returned
HandlerReturned == pc = "watching"

Summary == [ev |-> cur.val, out |-> out, calls |-> calls]

\* for event in stream: self.process_configmap_event(event['type'], event['object'])
Take ==
    /\ HandlerReturned
    /\ stream # <<>>
    /\ stream' = Tail(stream)
    /\ prev' = IF cur.some THEN Some(Summary) ELSE None
    /\ cur' = Some(Head(stream))
    /\ before' = netpols
    /\ calls' = <<>>
    /\ ProcessConfigmapEvent(Head(stream))
    /\ UNCHANGED <<docs, netpols, arrived, dry_run, now, failures, rejected>>
    /\ UNCHANGED <<daemonVars, gateVars, validatorVars, resolverVars, unitVars>>

\* call c belongs to the handler invocation the thread is blocked in
Mine(c) == cur.some /\ c.seq = cur.val.seq /\ pc = c.op

\* the API server answers call c with res
Answer(c, res) ==
    /\ netpols' = Effect(c, res)
    /\ calls' = Append(calls, Completed(c, res))
    /\ failures' = IF IsFailure(res) THEN failures + 1 ELSE failures
    /\ UNCHANGED <<docs, stream, arrived, dry_run, resolver, now, cur, out, before,
                   prev, rejected>>
    /\ UNCHANGED <<daemonVars, gateVars, validatorVars, resolverVars, unitVars>>

\* the handler goes on with the next blocking call in place of c
Continue(c, next) ==
    /\ pc' = next.op
    /\ inflight' = (inflight \ {c}) \cup {next}

\* the handler's call c is over and the handler ends, at position `to`
Finish(c, to) ==
    /\ pc' = IF Mine(c) THEN to ELSE pc
    /\ inflight' = inflight \ {c}

\* apply_network_policy, after read_namespaced_network_policy
ReadDone ==
    \E c \in inflight : \E res \in Answers(c) :
        /\ c.op = "read"
        /\ Answer(c, res)
        /\ IF Mine(c) /\ AfterRead(res) # "return"
           THEN Continue(c, Call(AfterRead(res), c.namespace, c.name, out.np, c.seq))
           ELSE Finish(c, "watching")

\* apply_network_policy, after patch_namespaced_network_policy
PatchDone ==
    \E c \in inflight : \E res \in Answers(c) :
        /\ c.op = "patch"
        /\ Answer(c, res)
        /\ IF Mine(c) /\ AfterPatch(res) # "return"
           THEN Continue(c, Call(AfterPatch(res), c.namespace, c.name, c.body, c.seq))
           ELSE Finish(c, "watching")

\* apply_network_policy, after create_namespaced_network_policy
CreateDone ==
    \E c \in inflight : \E res \in Answers(c) :
        /\ c.op = "create"
        /\ Answer(c, res)
        /\ Finish(c, "watching")

\* process_configmap_event, after delete_namespaced_network_policy: only an
\* ApiException is caught there, anything else reaches start_watching's handler
DeleteDone ==
    \E c \in inflight : \E res \in Answers(c) :
        /\ c.op = "delete"
        /\ Answer(c, res)
        /\ Finish(c, AfterDelete(res))

\* the worker threads of the webhook server
Workers == 1..MaxWorkers

\* a worker that has not been given a request
Idle ==
    [pc |-> "idle", review |-> None, uid |-> "", policy |-> None,
     validation_result |-> None, response |-> None]

\* the agent and the webhook after construction
AgentInit ==
    /\ docs = [id \in DocIds |-> None]
    /\ netpols = {}
    /\ stream = <<>>
    /\ arrived = 0
    /\ dry_run \in BOOLEAN
    /\ resolver = [cache |-> EmptyDict, last_fetch |-> 0]
    /\ now = CacheTtl
    /\ pc = "watching"
    /\ cur = None
    /\ out = NotRun
    /\ inflight = {}
    /\ calls = <<>>
    /\ before = {}
    /\ prev = None
    /\ failures = 0
    /\ rejected = 0
    /\ slept = FALSE
    /\ opened = "first"
    /\ gate = [w \in Workers |-> Idle]
    /\ errs = [w \in Workers |-> <<>>]

\* no call of the validator or of the resolver has been made
\* nothing has been handed to generate_network_policy or calculate_health_score
NothingGiven ==
    /\ document = None
    /\ translated = None
    /\ twin = None
    /\ counts = None
    /\ score = None

NoCalls ==
    /\ subject = None
    /\ verdict = None
    /\ request = None
    /\ fetched_at = EmptyDict
    /\ callers = <<>>
    /\ NothingGiven

Init == AgentInit /\ NoCalls

Next ==
    \/ \E id \in DocIds : \E text \in TextsOf(id) : TenantCreate(id, text)
    \/ \E id \in DocIds : \E text \in TextsOf(id) : TenantUpdate(id, text)
    \/ \E id \in DocIds : TenantDelete(id)
    \/ Take
    \/ ReadDone
    \/ PatchDone
    \/ CreateDone
    \/ DeleteDone

Spec == Init /\ [][Next]_vars

(***************************************************************************)
(* The daemon: main() calls start_watching again whenever it ends.  The    *)
(* thread is at "main" at the head of `while True`, at "watching" at the   *)
(* head of `for event in stream`, at "sleep" in start_watching's except    *)
(* branch, at "sleep10" in main's except branch, at "stopped" after break. *)
(***************************************************************************)
\* the documents of the runs that restart the watch, in the order a list call
\* returns them
DaemonDocs == <<DocId("tenant-b", "egress-policy")>>

DaemonDocIds == {DaemonDocs[i] : i \in 1..Len(DaemonDocs)}

\* a newly opened watch first lists the documents present, as ADDED events,
\* numbered after the events delivered so far
RECURSIVE Listed(_, _)
Listed(i, n) ==
    IF i > Len(DaemonDocs) THEN <<>>
    ELSE IF docs[DaemonDocs[i]].some
    THEN <<Event(arrived + n + 1, "ADDED", docs[DaemonDocs[i]].val)>> \o Listed(i + 1, n + 1)
    ELSE Listed(i + 1, n)

\* the steps below leave the cluster and the handler's record as they are
DaemonStep ==
    UNCHANGED <<docs, netpols, arrived, dry_run, resolver, now, cur, out, inflight,
                calls, before, prev, rejected, gateVars, validatorVars, resolverVars, unitVars>>

\* the stream is exhausted: the for loop ends and start_watching returns
StreamEnds ==
    /\ pc = "watching"
    /\ stream = <<>>
    /\ pc' = "main"
    /\ DaemonStep
    /\ UNCHANGED <<stream, failures, slept, opened>>

\* iterating the stream raises: logged in the except branch, then time.sleep(5)
WatchFails ==
    /\ pc = "watching"
    /\ pc' = "sleep"
    /\ DaemonStep
    /\ UNCHANGED <<stream, failures, slept, opened>>

\* time.sleep(5) is over and start_watching returns
Sleep5Done ==
    /\ pc = "sleep"
    /\ pc' = "main"
    /\ slept' = TRUE
    /\ DaemonStep
    /\ UNCHANGED <<stream, failures, opened>>

\* mutant: main leaves its loop on an unexpected exception
AfterUnexpectedGivesUp == "exited"

\* main: an exception out of start_watching is logged, then time.sleep(10)
AfterUnexpected == "sleep10"

\* start_watching raises before its try block is entered
StartFails ==
    /\ pc = "main"
    /\ failures < MaxFailures
    /\ failures' = failures + 1
    /\ pc' = AfterUnexpected
    /\ DaemonStep
    /\ UNCHANGED <<stream, slept, opened>>

\* time.sleep(10) is over and the while loop goes round
Sleep10Done ==
    /\ pc = "sleep10"
    /\ pc' = "main"
    /\ slept' = TRUE
    /\ DaemonStep
    /\ UNCHANGED <<stream, failures, opened>>

\* main calls start_watching, which opens a new watch stream
StartWatching ==
    /\ pc = "main"
    /\ pc' = "watching"
    /\ stream' = Listed(1, 0)
    /\ opened' = IF slept THEN "after sleep" ELSE "at once"
    /\ slept' = FALSE
    /\ DaemonStep
    /\ UNCHANGED failures

\* KeyboardInterrupt: not an Exception, so only main catches it, and breaks
Interrupt ==
    /\ pc \notin {"stopped", "exited"}
    /\ pc' = "stopped"
    /\ DaemonStep
    /\ UNCHANGED <<stream, failures, slept, opened>>

DaemonNext ==
    \/ \E id \in DaemonDocIds : \E text \in TextsOf(id) : TenantCreate(id, text)
    \/ \E id \in DaemonDocIds : \E text \in TextsOf(id) : TenantUpdate(id, text)
    \/ \E id \in DaemonDocIds : TenantDelete(id)
    \/ Take
    \/ ReadDone
    \/ PatchDone
    \/ CreateDone
    \/ DeleteDone
    \/ StreamEnds
    \/ WatchFails
    \/ Sleep5Done
    \/ StartFails
    \/ Sleep10Done
    \/ StartWatching
    \/ Interrupt

\* the thread is scheduled: a sleep ends, and main's loop makes its next call
DaemonSpec ==
    /\ Init
    /\ [][DaemonNext]_vars
    /\ WF_vars(Sleep5Done)
    /\ WF_vars(Sleep10Done)
    /\ WF_vars(StartWatching)

(***************************************************************************)
(* The admission webhook (egress-agent/src/webhook_server.py).  The server *)
(* handles requests on several threads; each worker runs validate_configmap *)
(* for one request at a time, in steps: "idle", then "validate" and        *)
(* "destinations" inside PolicyValidator.validate, then "respond", "done". *)
(* A JSON value that is not an object where the code expects one is kept   *)
(* as Scalar(type), type being the name of its Python type.                *)
(***************************************************************************)
Scalar(type) == [scalar |-> type]

\* x is a dict: x.get exists
IsDict(x) == ~Has(x, "scalar")

\* x is a str: x.strip exists
IsText(x) == Has(x, "blank")

\* str(e) of the AttributeError that x.attr raises on a value of that type
AttributeErrorText(type, attr) ==
    "'" \o type \o "' object has no attribute '" \o attr \o "'"

\* str(e) of the JSONDecodeError for a text that is no JSON
DecodeErrorText == "Expecting value: line 1 column 1 (char 0)"

\* mutant: the status code is 200 whatever the decision
StatusCodeAlways200(allowed) == 200

\* "code": 200 if allowed else 400
StatusCode(allowed) == IF allowed THEN 200 ELSE 400

create_admission_response(allowed, message, uid) ==
    [apiVersion |-> "admission.k8s.io/v1",
     kind |-> "AdmissionReview",
     response |-> [uid |-> uid,
                   allowed |-> allowed,
                   status |-> [code |-> StatusCode(allowed), message |-> message]]]

\* return jsonify(create_admission_response(allowed, message, uid)), http
Returned(allowed, message, uid, http) ==
    Some([said |-> [allowed |-> allowed, message |-> message, uid |-> uid],
          body |-> create_admission_response(allowed, message, uid),
          http |-> http])

\* mutant: the exception leaves validate_configmap, no admission response
Uncaught(text, uid) == None

\* except Exception as e: deny with the internal-error message, HTTP 500
Caught(text, uid) == Returned(FALSE, "Internal validation error: " \o text, uid, 500)

\* the handler goes on to validator.validate(policy)
ToValidate(policy, uid) == [reply |-> None, policy |-> Some(policy), uid |-> uid]

\* the handler returns
Replies(reply, uid) == [reply |-> reply, policy |-> None, uid |-> uid]

\* mutant: the label is not looked at
GateManagedAlways(labels) == TRUE

\* labels.get('egress-controller') == 'managed'
GateManaged(labels) == Get(labels, "egress-controller", "") = "managed"

\* mutant: the payload is parsed before it is checked for being blank
CheckPayloadParseFirst(policy_json, uid) ==
    IF ~IsText(policy_json)
    THEN Replies(Caught(AttributeErrorText(policy_json.scalar, "strip"), uid), uid)
    ELSE IF ~JsonLoads(policy_json).ok
    THEN Replies(Returned(FALSE, "Invalid JSON in policy.json: " \o DecodeErrorText,
                          uid, 400), uid)
    ELSE IF policy_json.blank
    THEN Replies(Returned(FALSE, "Missing policy.json in ConfigMap data", uid, 400), uid)
    ELSE ToValidate(JsonLoads(policy_json), uid)

\* the blank check, then json.loads
CheckPayload(policy_json, uid) ==
    IF ~IsText(policy_json)
    THEN Replies(Caught(AttributeErrorText(policy_json.scalar, "strip"), uid), uid)
    ELSE IF policy_json.blank
    THEN Replies(Returned(FALSE, "Missing policy.json in ConfigMap data", uid, 400), uid)
    ELSE IF ~JsonLoads(policy_json).ok
    THEN Replies(Returned(FALSE, "Invalid JSON in policy.json: " \o DecodeErrorText,
                          uid, 400), uid)
    ELSE ToValidate(JsonLoads(policy_json), uid)

\* validate_configmap from the labels on, for an object that is a dict
CheckObject(configmap, uid) ==
    LET metadata == Get(configmap, "metadata", EmptyDict)
    IN  IF ~IsDict(metadata)
        THEN Replies(Caught(AttributeErrorText(metadata.scalar, "get"), uid), uid)
        ELSE LET labels == Get(metadata, "labels", EmptyDict)
             IN  IF ~IsDict(labels)
                 THEN Replies(Caught(AttributeErrorText(labels.scalar, "get"), uid), uid)
                 ELSE IF ~GateManaged(labels)
                 THEN Replies(Returned(TRUE, "Not an egress policy ConfigMap", uid, 200),
                              uid)
                 ELSE LET data == Get(configmap, "data", EmptyDict)
                      IN  IF ~IsDict(data)
                          THEN Replies(Caught(AttributeErrorText(data.scalar, "get"),
                                              uid), uid)
                          ELSE CheckPayload(Get(data, "policy.json", BlankText), uid)

\* the request body could not be decoded: request.get_json raises
BadBody == [undecodable |-> TRUE]

\* validate_configmap up to the call of validator.validate
Extract(body) ==
    IF Has(body, "undecodable")
    THEN Replies(Returned(FALSE, "Invalid JSON request", "", 400), "")
    ELSE IF DOMAIN body = {}
    THEN Replies(Returned(FALSE, "No data received", "", 400), "")
    ELSE IF ~IsDict(body)
    THEN Replies(Caught(AttributeErrorText(body.scalar, "get"), ""), "")
    ELSE LET req == Get(body, "request", EmptyDict)
         IN  IF ~IsDict(req)
             THEN Replies(Caught(AttributeErrorText(req.scalar, "get"), ""), "")
             ELSE LET uid == Get(req, "uid", "")
                      configmap == Get(req, "object", EmptyDict)
                  IN  IF ~IsDict(configmap)
                      THEN Replies(Caught(AttributeErrorText(configmap.scalar, "get"),
                                          uid), uid)
                      ELSE CheckObject(configmap, uid)

\* validate raises on a destination that is not a dict (dest.get)
ValidateRaises(policy) ==
    LET destinations == Get(policy, "allowedDestinations", JsonList(<<>>))
    IN  /\ destinations.list
        /\ \E i \in 1..Len(destinations.items) : ~IsDict(destinations.items[i])

\* the text of an error of the validator: f"Destination {index}: ..."
ErrorText(e) ==
    IF e.dest = -1 THEN e.what
    ELSE "Destination " \o ToString(e.dest) \o ": " \o e.what

\* '; '.join(errors)
RECURSIVE Join(_)
Join(list) ==
    IF list = <<>> THEN ""
    ELSE IF Len(list) = 1 THEN ErrorText(list[1])
    ELSE ErrorText(list[1]) \o "; " \o Join(Tail(list))

\* mutant: validate appends to one list that all invocations share
ErrorsShared(w) == 1

\* errors = []: the list is a local of the invocation of validate
ErrorsOf(w) == w

\* mutant: an awsService destination is resolved while it is validated
ResolverAfterResolving(rs, items, t) ==
    ProcessDestinations(items, 1, rs, t, [i \in 1..Len(items) |-> Fetched(IpRanges)]).rs

\* _validate_destination checks an awsService against VALID_AWS_SERVICES and
\* calls nothing: the resolver is as it was
ResolverAfterValidation(rs, items, t) == rs

\* mutant: the validation result is not looked at
GateAllowsAlways(validation_result) == TRUE

\* if validation_result.is_valid
GateAllows(validation_result) == validation_result.is_valid

\* the steps of the webhook leave the cluster and the agent as they are
GateStep ==
    UNCHANGED <<docs, netpols, stream, arrived, dry_run, now, pc, cur, out, inflight,
                calls, before, prev, failures, rejected, daemonVars, validatorVars,
                request, fetched_at, callers, unitVars>>

\* the handler ends with response `reply`
Ends(w, reply) ==
    gate' = [gate EXCEPT ![w].pc = "done", ![w].response = reply]

\* the list of the invocation is garbage once the handler has ended
Freed(w) ==
    errs' = [errs EXCEPT ![ErrorsOf(w)] = <<>>]

\* a request arrives: validate_configmap up to the call of validator.validate
Receive(w, body) ==
    /\ gate[w].pc \in {"idle", "done"}
    /\ LET x == Extract(body)
       IN  gate' = [gate EXCEPT ![w] =
                       [pc |-> IF x.policy.some THEN "validate" ELSE "done",
                        review |-> Some(body),
                        uid |-> x.uid,
                        policy |-> x.policy,
                        validation_result |-> None,
                        response |-> x.reply]]
    /\ UNCHANGED <<errs, resolver>>
    /\ GateStep

\* validate: errors = [], the default action, the type of allowedDestinations
ValidateBegin(w) ==
    /\ gate[w].pc = "validate"
    /\ LET parsed == gate[w].policy.val
       IN  IF ~parsed.isobj
           THEN /\ Ends(w, Caught(AttributeErrorText("list", "get"), gate[w].uid))
                /\ UNCHANGED errs
           ELSE LET policy == parsed.obj
                    default_action == Get(policy, "defaultAction", "deny")
                    e1 == ErrIf(default_action \notin VALID_ACTIONS, -1,
                                "Invalid defaultAction: " \o default_action)
                    destinations == Get(policy, "allowedDestinations", JsonList(<<>>))
                IN  IF ~destinations.list
                    THEN /\ errs' = [errs EXCEPT ![ErrorsOf(w)] =
                               e1 \o <<Err(-1, "allowedDestinations must be a list")>>]
                         /\ gate' = [gate EXCEPT
                               ![w].pc = "respond",
                               ![w].validation_result =
                                   Some([is_valid |-> FALSE, errors |-> ErrorsOf(w)])]
                    ELSE /\ errs' = [errs EXCEPT ![ErrorsOf(w)] = e1]
                         /\ gate' = [gate EXCEPT ![w].pc = "destinations"]
    /\ UNCHANGED resolver
    /\ GateStep

\* validate: the loop over the destinations and the ValidationResult
ValidateEnd(w) ==
    /\ gate[w].pc = "destinations"
    /\ LET policy == gate[w].policy.val.obj
           items == Get(policy, "allowedDestinations", JsonList(<<>>)).items
       IN  IF ValidateRaises(policy)
           THEN /\ Ends(w, Caught(AttributeErrorText("str", "get"), gate[w].uid))
                /\ Freed(w)
                /\ UNCHANGED resolver
           ELSE /\ errs' = [errs EXCEPT ![ErrorsOf(w)] =
                                 errs[ErrorsOf(w)] \o ValidateDestinations(items, 1)]
                /\ resolver' = ResolverAfterValidation(resolver, items, now)
                /\ gate' = [gate EXCEPT
                      ![w].pc = "respond",
                      ![w].validation_result =
                          Some([is_valid |-> Len(errs'[ErrorsOf(w)]) = 0,
                                errors |-> ErrorsOf(w)])]
    /\ GateStep

\* validate_configmap after validator.validate returned
Respond(w) ==
    /\ gate[w].pc = "respond"
    /\ LET validation_result == gate[w].validation_result.val
       IN  IF GateAllows(validation_result)
           THEN Ends(w, Returned(TRUE, "Policy validation successful", gate[w].uid, 200))
           ELSE Ends(w, Returned(FALSE,
                                 "Policy validation failed: "
                                     \o Join(errs[validation_result.errors]),
                                 gate[w].uid, 400))
    /\ Freed(w)
    /\ UNCHANGED resolver
    /\ GateStep

\* the requests sent to the webhook
AdmissionReview(uid, object) ==
    [apiVersion |-> "admission.k8s.io/v1",
     kind |-> "AdmissionReview",
     request |-> [uid |-> uid, operation |-> "CREATE", object |-> object]]

Candidate(labels, data) ==
    [metadata |-> [name |-> "egress-policy", namespace |-> "tenant-a",
                   labels |-> labels],
     data |-> data]

Payload(text) == ("policy.json" :> text)

\* a ConfigMap without the key policy.json
OtherData == ("other-data" :> Text(NoJson))

NotAListPolicyText ==
    Text(JsonObject([defaultAction |-> "permit",
                     allowedDestinations |-> NotAList]))

ScalarDestinationPolicyText ==
    Text(JsonObject([defaultAction |-> "deny",
                     allowedDestinations |-> JsonList(<<Scalar("str")>>)]))

Payloads ==
    {Payload(CidrPolicyText), Payload(ServicePolicyText), Payload(RejectedPolicyText),
     Payload(GarbageText), Payload(BlankText), OtherData, Payload(Scalar("int")),
     Payload(Text(JsonOther)), Payload(NotAListPolicyText),
     Payload(ScalarDestinationPolicyText)}

Bodies ==
    {AdmissionReview("uid-1", Candidate(ManagedLabels, data)) : data \in Payloads}
    \cup {AdmissionReview("uid-2", Candidate(ManagedLabels, Payload(CidrPolicyText)))}
    \cup {AdmissionReview("uid-1", Candidate(NoLabels, data)) :
              data \in {Payload(CidrPolicyText), Payload(GarbageText), OtherData,
                        Payload(Scalar("int"))}}
    \cup {AdmissionReview("uid-1", Candidate(Scalar("list"), Payload(CidrPolicyText))),
          BadBody, EmptyDict, Scalar("list"), [kind |-> "AdmissionReview"]}

GateNext ==
    \/ \E w \in Workers : \E body \in Bodies : Receive(w, body)
    \/ \E w \in Workers : ValidateBegin(w)
    \/ \E w \in Workers : ValidateEnd(w)
    \/ \E w \in Workers : Respond(w)

\* the webhook is a process of its own, next to an agent that is not in dry-run
GateInit == Init /\ ~dry_run

GateSpec == GateInit /\ [][GateNext]_vars

(***************************************************************************)
(* Vocabulary of the properties                                            *)
(***************************************************************************)
CurNs == cur.val.object.metadata.namespace

CurManaged == cur.some /\ Get(cur.val.object.metadata.labels, "egress-controller", "") = "managed"

CurIs(types) == CurManaged /\ cur.val.type \in types

\* the handler called for cur has returned to the loop
Handled == cur.some /\ pc = "watching" /\ inflight = {}

RuleSetsIn(nps, namespace) == {np \in nps : np.metadata.namespace = namespace}

NoFailureIn(cs) == \A i \in 1..Len(cs) : ~IsFailure(cs[i].res)

Done(op, namespace, res) ==
    [op |-> op, namespace |-> namespace, name |-> "egress-policy-generated",
     res |-> res, seq |-> cur.val.seq]

\* C1: a Created/Updated event of a managed document whose policy translates,
\* with dry-run off and no cluster API failure, leaves the namespace holding
\* exactly the translator's output; the handler patched if its read found a rule
\* set and created if the read reported not found.
C1_ApplyOnSuccess ==
    (/\ Handled
     /\ CurIs({"ADDED", "MODIFIED"})
     /\ Translates(cur.val.object.data)
     /\ ~dry_run
     /\ NoFailureIn(calls))
    => /\ out.ran /\ out.np.some
       /\ RuleSetsIn(netpols, CurNs) = {out.np.val}
       /\ out.np.val.metadata.namespace = CurNs
       /\ calls = IF RuleSetsIn(before, CurNs) # {}
                  THEN <<Done("read", CurNs, "ok"), Done("patch", CurNs, "ok")>>
                  ELSE <<Done("read", CurNs, "404"), Done("create", CurNs, "ok")>>

C1_Witness ==
    /\ Handled
    /\ CurIs({"MODIFIED"})
    /\ ~dry_run
    /\ Len(calls) = 2 /\ calls[2].op = "patch" /\ calls[2].res = "ok"
    /\ prev.some /\ Len(prev.val.calls) = 2 /\ prev.val.calls[2].op = "create"
    /\ RuleSetsIn(netpols, CurNs) = {out.np.val}
    /\ RuleSetsIn(before, CurNs) # {out.np.val}

\* C2: when translation fails on a Created/Updated event (the payload does not
\* parse or the validator rejects it) no cluster call is issued for the event and
\* the cluster's rule sets are what they were before it.
C2_NoApplyOnTranslationFailure ==
    (/\ CurIs({"ADDED", "MODIFIED"})
     /\ ~Translates(cur.val.object.data))
    => /\ calls = <<>>
       /\ inflight = {}
       /\ netpols = before
       /\ pc = "watching"

C2_Witness ==
    /\ CurIs({"MODIFIED"})
    /\ JsonLoads(cur.val.object.data["policy.json"]).ok
    /\ ~Translates(cur.val.object.data)
    /\ RuleSetsIn(netpols, CurNs) # {}
    /\ prev.some /\ ~JsonLoads(prev.val.ev.object.data["policy.json"]).ok
    /\ prev.val.calls = <<>>

C4_CreateThenDelete ==
    (/\ Handled
     /\ CurIs({"DELETED"})
     /\ prev.some
     /\ prev.val.ev.type = "ADDED"
     /\ prev.val.ev.object.metadata.namespace = CurNs
     /\ NoFailureIn(calls))
    => RuleSetsIn(netpols, CurNs) = {}

C4_Witness ==
    /\ Handled
    /\ CurIs({"DELETED"})
    /\ prev.some
    /\ prev.val.ev.type = "ADDED"
    /\ prev.val.ev.object.metadata.namespace = CurNs
    /\ Len(prev.val.calls) = 2 /\ prev.val.calls[2].op = "create"
    /\ prev.val.calls[2].res = "ok"
    /\ calls = <<Done("delete", CurNs, "ok")>>
    /\ RuleSetsIn(netpols, CurNs) = {}

\* C5: processing the same Updated event twice in a row, with the same translator
\* output both times (dry-run off, no cluster API failure), leaves the rule set
\* as the first processing left it; the second processing reads, patches and
\* issues no create.
C5_UpdateTwice ==
    (/\ Handled
     /\ CurIs({"MODIFIED"})
     /\ prev.some
     /\ prev.val.ev.type = "MODIFIED"
     /\ prev.val.ev.object = cur.val.object
     /\ out.np.some
     /\ prev.val.out.np = out.np
     /\ ~dry_run
     /\ NoFailureIn(prev.val.calls)
     /\ NoFailureIn(calls))
    => /\ netpols = before
       /\ RuleSetsIn(netpols, CurNs) = {out.np.val}
       /\ calls = <<Done("read", CurNs, "ok"), Done("patch", CurNs, "ok")>>
       /\ \A i \in 1..Len(calls) : calls[i].op # "create"

C5_Witness ==
    /\ Handled
    /\ CurIs({"MODIFIED"})
    /\ prev.some
    /\ prev.val.ev.type = "MODIFIED"
    /\ prev.val.ev.object = cur.val.object
    /\ out.np.some
    /\ prev.val.out.np = out.np
    /\ Len(out.np.val.spec.egress) = 1
    /\ Len(calls) = 2 /\ calls[2].op = "patch" /\ calls[2].res = "ok"
    /\ netpols = before

\* C6: once every delivered event is processed (valid policies, no cluster API
\* failure, dry-run off) a namespace holds a rule set exactly when a managed
\* document is present in it, also when it has several managed documents.
C6_LifecycleFollowsDocuments ==
    (/\ stream = <<>> /\ pc = "watching" /\ inflight = {}
     /\ ~dry_run
     /\ failures = 0
     /\ rejected = 0)
    => \A namespace \in Namespaces :
          RuleSetsIn(netpols, namespace) # {}
          <=> \E id \in DocIds :
                 /\ id.namespace = namespace
                 /\ docs[id].some
                 /\ docs[id].val.metadata.labels = ManagedLabels

\* C7: each namespace holds at most one rule set; every cluster call of the loop
\* targets the name egress-policy-generated, and a create is issued only right
\* after a read or patch of that rule set was answered not found.
C7_OneRuleSetPerNamespace ==
    /\ \A namespace \in Namespaces : Cardinality(RuleSetsIn(netpols, namespace)) <= 1
    /\ \A np \in netpols : np.metadata.name = "egress-policy-generated"
    /\ \A c \in inflight : c.name = "egress-policy-generated"
    /\ \A i \in 1..Len(calls) : calls[i].name = "egress-policy-generated"
    /\ \A i \in 1..Len(calls) :
          calls[i].op = "create"
          => /\ i > 1
             /\ calls[i - 1].op \in {"read", "patch"}
             /\ calls[i - 1].res = "404"
             /\ calls[i - 1].namespace = calls[i].namespace
    /\ \A c \in inflight :
          c.op = "create"
          => /\ calls # <<>>
             /\ calls[Len(calls)].op \in {"read", "patch"}
             /\ calls[Len(calls)].res = "404"
             /\ calls[Len(calls)].namespace = c.namespace

C7_Witness ==
    /\ Handled
    /\ CurIs({"ADDED"})
    /\ Len(calls) = 2 /\ calls[2].op = "patch" /\ calls[2].res = "ok"
    /\ prev.some /\ prev.val.ev.type = "ADDED"
    /\ prev.val.ev.object.metadata.namespace = CurNs
    /\ Len(prev.val.calls) = 2 /\ prev.val.calls[2].op = "create"
    /\ Cardinality(RuleSetsIn(netpols, CurNs)) = 1

\* C8: in dry-run mode no create, patch or delete call is ever issued and the
\* cluster's rule sets never change; Created/Updated events still run the
\* translation.
C8_DryRunNoMutation ==
    dry_run
    => /\ \A c \in inflight : c.op \notin {"create", "patch", "delete"}
       /\ \A i \in 1..Len(calls) : calls[i].op \notin {"create", "patch", "delete"}
       /\ netpols = {}
       /\ CurIs({"ADDED", "MODIFIED"}) => out.ran

C8_Witness ==
    /\ dry_run
    /\ Handled
    /\ CurIs({"DELETED"})
    /\ prev.some /\ prev.val.ev.type = "MODIFIED"
    /\ prev.val.out.ran /\ prev.val.out.np.some
    /\ prev.val.calls = <<>>
    /\ calls = <<>>

\* C9: an event whose document does not carry the label egress-controller=managed
\* is ignored whatever its type: no translation, no resolver call, no cluster
\* call, and the cluster's rule sets are unchanged.
C9_UnmanagedIgnored ==
    (cur.some /\ ~CurManaged)
    => /\ ~out.ran
       /\ out.resolves = 0 /\ out.fetches = 0
       /\ calls = <<>>
       /\ inflight = {}
       /\ netpols = before
       /\ pc = "watching"

C9_Witness ==
    /\ cur.some /\ ~CurManaged
    /\ cur.val.type = "DELETED"
    /\ prev.some /\ prev.val.ev.type = "ADDED"
    /\ prev.val.ev.object = cur.val.object
    /\ RuleSetsIn(netpols, CurNs) # {}

\* C10: events are handled one at a time in arrival order: every cluster call in
\* flight or completed belongs to the event being handled, at most one call is in
\* flight, and the events taken so far are exactly the first ones delivered.
C10_OneEventAtATime ==
    /\ Cardinality(inflight) <= 1
    /\ \A c \in inflight : cur.some /\ c.seq = cur.val.seq
    /\ \A i \in 1..Len(calls) : cur.some /\ calls[i].seq = cur.val.seq
    /\ \A i \in 1..Len(stream) : stream[i].seq = arrived - Len(stream) + i
    /\ cur.some => cur.val.seq = arrived - Len(stream)
    /\ ~cur.some => Len(stream) = arrived
    /\ prev.some => /\ prev.val.ev.seq + 1 = cur.val.seq
                    /\ \A i \in 1..Len(prev.val.calls) :
                          prev.val.calls[i].seq = prev.val.ev.seq

C10_Witness ==
    /\ \E c \in inflight : c.op = "create" /\ c.namespace = "tenant-a"
    /\ Len(stream) = 2
    /\ stream[1].type = "DELETED"
    /\ stream[1].object.metadata.namespace = "tenant-a"
    /\ stream[1].object.metadata.labels = ManagedLabels

\* C11: whatever failure an event's processing meets (translation error, apply
\* failure, any failure of the delete call), process_configmap_event catches it
\* and returns, so the loop is back at the head of the stream and goes on with
\* the remaining events.
C11_FailuresCaughtInHandler ==
    (cur.some /\ inflight = {}) => pc = "watching"

\* C12: the daemon never gives up: whenever start_watching has ended (stream
\* exhausted, watch error, unexpected exception) main calls it again and the
\* loop is back at the head of a stream, unless an interrupt stopped the daemon;
\* there is no retry count after which main stops.
C12_DaemonNeverGivesUp ==
    (pc \in {"main", "sleep", "sleep10"}) ~> (pc \in {"watching", "stopped"})

C12_Witness ==
    /\ Handled
    /\ opened = "after sleep"
    /\ CurIs({"ADDED"})
    /\ prev.some
    /\ Len(prev.val.calls) = 1
    /\ prev.val.calls[1].op = "delete"
    /\ prev.val.calls[1].res = "Exception"

\* C13: a watch stream opened after another one terminated is opened after a
\* sleep, whether the earlier stream ended with an error or ended normally.
C13_ReopenAfterDelay ==
    opened # "at once"

(***************************************************************************)
(* Vocabulary of the properties of the webhook                             *)
(***************************************************************************)
GateDone(w) == gate[w].pc = "done"

ReviewOf(w) == gate[w].review.val

ResponseOf(w) == gate[w].response.val

AllowedBy(w) == ResponseOf(w).body.response.allowed

MessageOf(w) == ResponseOf(w).body.response.status.message

\* the request carries a candidate document
IsReview(body) == Has(body, "request")

CandidateOf(body) == body.request.object

LabelsIn(body) == CandidateOf(body).metadata.labels

ManagedDoc(body) ==
    /\ IsReview(body)
    /\ IsDict(LabelsIn(body))
    /\ Has(LabelsIn(body), "egress-controller")
    /\ LabelsIn(body)["egress-controller"] = "managed"

UnmanagedDoc(body) ==
    /\ IsReview(body)
    /\ IsDict(LabelsIn(body))
    /\ \/ ~Has(LabelsIn(body), "egress-controller")
       \/ LabelsIn(body)["egress-controller"] # "managed"

\* the text under policy.json; a document without the key has the empty text
PayloadOf(body) ==
    IF Has(CandidateOf(body).data, "policy.json")
    THEN CandidateOf(body).data["policy.json"]
    ELSE BlankText

\* the text parses to a policy that validate can be asked about
Checkable(text) ==
    /\ IsText(text)
    /\ ~text.blank
    /\ JsonLoads(text).ok
    /\ JsonLoads(text).isobj
    /\ ~ValidateRaises(JsonLoads(text).obj)

InternalErrorMessages ==
    {"Internal validation error: " \o AttributeErrorText(type, attr) :
        type \in {"list", "str", "int"}, attr \in {"get", "strip"}}

\* C14: a managed document is allowed exactly when its policy.json is not blank,
\* parses as JSON and PolicyValidator.validate reports it valid; every other
\* managed document is denied.
C14_ManagedAllowedIffValid ==
    \A w \in Workers :
        (GateDone(w) /\ ManagedDoc(ReviewOf(w)))
        => /\ gate[w].response.some
           /\ AllowedBy(w)
              <=> /\ Checkable(PayloadOf(ReviewOf(w)))
                  /\ Validate(JsonLoads(PayloadOf(ReviewOf(w))).obj).is_valid

C14_Witness ==
    /\ GateDone(1) /\ GateDone(2)
    /\ ManagedDoc(ReviewOf(1)) /\ ManagedDoc(ReviewOf(2))
    /\ PayloadOf(ReviewOf(1)) = ServicePolicyText
    /\ AllowedBy(1)
    /\ PayloadOf(ReviewOf(2)) = RejectedPolicyText
    /\ ~AllowedBy(2)

\* C15: a document without the managed label is allowed with HTTP 200 whatever
\* its payload: missing, unparsable, not even a text, or a valid policy.
C15_UnmanagedAllowed ==
    \A w \in Workers :
        (GateDone(w) /\ UnmanagedDoc(ReviewOf(w)))
        => /\ gate[w].response.some
           /\ AllowedBy(w)
           /\ ResponseOf(w).http = 200
           /\ MessageOf(w) = "Not an egress policy ConfigMap"

C15_Witness ==
    /\ GateDone(1) /\ GateDone(2)
    /\ UnmanagedDoc(ReviewOf(1)) /\ UnmanagedDoc(ReviewOf(2))
    /\ PayloadOf(ReviewOf(1)) = GarbageText
    /\ ~IsText(PayloadOf(ReviewOf(2)))
    /\ AllowedBy(1) /\ AllowedBy(2)

\* C16: for a managed document whose payload is a text the deny reasons are
\* tried in the order of the table, each with HTTP 400: a blank payload is
\* denied as missing policy.json (also when it would not parse either), else an
\* unparsable payload is denied as invalid JSON with the parse error, else a
\* payload the validator rejects is denied with the validator's errors joined
\* with "; " (after the words "Policy validation failed: ").
C16_DenyReasonInOrder ==
    \A w \in Workers :
        (GateDone(w) /\ ManagedDoc(ReviewOf(w)) /\ IsText(PayloadOf(ReviewOf(w))))
        => LET text == PayloadOf(ReviewOf(w))
           IN  /\ gate[w].response.some
               /\ text.blank
                  => /\ ~AllowedBy(w)
                     /\ ResponseOf(w).http = 400
                     /\ MessageOf(w) = "Missing policy.json in ConfigMap data"
               /\ (~text.blank /\ ~JsonLoads(text).ok)
                  => /\ ~AllowedBy(w)
                     /\ ResponseOf(w).http = 400
                     /\ MessageOf(w) = "Invalid JSON in policy.json: " \o DecodeErrorText
               /\ (Checkable(text) /\ ~Validate(JsonLoads(text).obj).is_valid)
                  => /\ ~AllowedBy(w)
                     /\ ResponseOf(w).http = 400
                     /\ MessageOf(w) = "Policy validation failed: "
                                         \o Join(Validate(JsonLoads(text).obj).errors)

C16_Witness ==
    /\ GateDone(1) /\ GateDone(2)
    /\ ManagedDoc(ReviewOf(1)) /\ ManagedDoc(ReviewOf(2))
    /\ ~Has(CandidateOf(ReviewOf(1)).data, "policy.json")
    /\ MessageOf(1) = "Missing policy.json in ConfigMap data"
    /\ PayloadOf(ReviewOf(2)) = NotAListPolicyText
    /\ MessageOf(2) = "Policy validation failed: Invalid defaultAction: permit; "
                       \o "allowedDestinations must be a list"

\* C17: validate_configmap answers every request with an admission response;
\* when the request makes it fail internally (labels that are no map, a payload
\* that is no text, a policy that is no JSON object, a destination that is no
\* object, a review that is no object) the response denies with the
\* internal-error message and HTTP 500.
C17_FailClosed ==
    \A w \in Workers :
        GateDone(w)
        => /\ gate[w].response.some
           /\ LET body == ReviewOf(w)
                  fails ==
                      \/ Has(body, "scalar")
                      \/ /\ IsReview(body)
                         /\ ~IsDict(LabelsIn(body))
                      \/ /\ ManagedDoc(body)
                         /\ \/ ~IsText(PayloadOf(body))
                            \/ /\ ~PayloadOf(body).blank
                               /\ JsonLoads(PayloadOf(body)).ok
                               /\ ~Checkable(PayloadOf(body))
              IN  fails => /\ ~AllowedBy(w)
                           /\ ResponseOf(w).http = 500
                           /\ MessageOf(w) \in InternalErrorMessages

C17_Witness ==
    /\ GateDone(1) /\ GateDone(2)
    /\ IsReview(ReviewOf(1)) /\ ~IsDict(LabelsIn(ReviewOf(1)))
    /\ ResponseOf(1).http = 500 /\ ~AllowedBy(1)
    /\ ManagedDoc(ReviewOf(2))
    /\ PayloadOf(ReviewOf(2)) = ScalarDestinationPolicyText
    /\ ResponseOf(2).http = 500 /\ ~AllowedBy(2)
    /\ MessageOf(2) = "Internal validation error: 'str' object has no attribute 'get'"

\* C18: no step of the webhook changes the cluster's rule sets, the documents or
\* the resolver's cache, and none issues a cluster call or runs the translator.
C18_GateHasNoEffect ==
    [][UNCHANGED <<netpols, docs, resolver, inflight, calls, out>>]_vars

C18_Witness ==
    /\ GateDone(1) /\ GateDone(2)
    /\ ManagedDoc(ReviewOf(1)) /\ ManagedDoc(ReviewOf(2))
    /\ PayloadOf(ReviewOf(1)) = ServicePolicyText /\ AllowedBy(1)
    /\ PayloadOf(ReviewOf(2)) = RejectedPolicyText /\ ~AllowedBy(2)
    /\ resolver.cache = EmptyDict
    /\ netpols = {} /\ inflight = {}

\* C19: two invocations of the gate on the same document have the same allowed
\* flag and the same message, whatever ran on the workers before and whatever
\* runs on the other worker at the same time.
C19_SameDocumentSameDecision ==
    \A w1 \in Workers : \A w2 \in Workers :
        (/\ GateDone(w1) /\ GateDone(w2)
         /\ gate[w1].response.some /\ gate[w2].response.some
         /\ \/ ReviewOf(w1) = ReviewOf(w2)
            \/ /\ IsReview(ReviewOf(w1)) /\ IsReview(ReviewOf(w2))
               /\ CandidateOf(ReviewOf(w1)) = CandidateOf(ReviewOf(w2)))
        => /\ AllowedBy(w1) = AllowedBy(w2)
           /\ MessageOf(w1) = MessageOf(w2)

C19_Witness ==
    /\ GateDone(1) /\ GateDone(2)
    /\ ManagedDoc(ReviewOf(1))
    /\ ReviewOf(1) = ReviewOf(2)
    /\ PayloadOf(ReviewOf(1)) = RejectedPolicyText
    /\ MessageOf(1) = MessageOf(2)
    /\ MessageOf(1) = "Policy validation failed: Destination 0: missing 'name' field; "
                       \o "Destination 0: missing 'ports' field"

\* C20: in every response of the gate the body's status.code is 200 when allowed
\* is true and 400 when it is false (also when the HTTP status is 500), and the
\* body carries the allowed flag, the message and the uid the handler passed.
C20_StatusCodeFollowsAllowed ==
    \A w \in Workers :
        gate[w].response.some
        => LET r == ResponseOf(w)
           IN  /\ r.body.response.status.code = IF r.body.response.allowed THEN 200 ELSE 400
               /\ r.body.response.allowed = r.said.allowed
               /\ r.body.response.status.message = r.said.message
               /\ r.body.response.uid = r.said.uid

C20_Witness ==
    /\ GateDone(1) /\ GateDone(2)
    /\ ResponseOf(1).http = 500
    /\ ResponseOf(1).body.response.status.code = 400
    /\ ResponseOf(2).http = 200
    /\ ResponseOf(2).body.response.status.code = 200
    /\ ResponseOf(2).body.response.uid = "uid-2"

(***************************************************************************)
(* PolicyValidator on its own: validate is called once with a policy drawn *)
(* from the policies below.                                                *)
(***************************************************************************)
\* name and ports of a destination: both absent, ports empty, both given
NamePorts ==
    {EmptyDict,
     ("name" :> "s3-access") @@ ("ports" :> <<>>),
     ("name" :> "s3-access") @@ ("ports" :> <<443>>)}

CidrParts == {EmptyDict, ("cidr" :> Cidr(10, 1, 0, 0, 16)), ("cidr" :> NotACidr)}

ServiceParts ==
    {EmptyDict,
     ("awsService" :> "s3") @@ ("regions" :> <<"us-east-1">>),
     ("awsService" :> "DynamoDB"),
     ("awsService" :> "invalid-service") @@ ("regions" :> <<"us-east-1">>),
     ("awsService" :> "FTP") @@ ("regions" :> <<>>)}

Destinations == {n @@ c @@ a : n \in NamePorts, c \in CidrParts, a \in ServiceParts}

DefaultActions == {None, Some("allow"), Some("deny"), Some("Allow"), Some("permit")}

\* the destinations that follow the first one of a list have name and ports
LaterDestinations == {d \in Destinations : Has(d, "name") /\ TruthySeq(d, "ports")}

\* the lists of at most n destinations
ItemLists(n) ==
    {<<>>} \cup {<<d>> \o rest : d \in Destinations,
                                rest \in UNION {[1..k -> LaterDestinations] : k \in 0..(n - 1)}}

Containers ==
    {None, Some(NotAList)} \cup {Some(JsonList(items)) : items \in ItemLists(MaxDestinations)}

Policy(action, container) ==
    (IF action.some THEN ("defaultAction" :> action.val) ELSE EmptyDict)
    @@ (IF container.some THEN ("allowedDestinations" :> container.val) ELSE EmptyDict)

Policies == {Policy(a, c) : a \in DefaultActions, c \in Containers}

ValidatorInit ==
    /\ AgentInit
    /\ ~dry_run
    /\ subject \in {Some(p) : p \in Policies}
    /\ verdict = None
    /\ request = None
    /\ fetched_at = EmptyDict
    /\ callers = <<>>
    /\ NothingGiven

\* result = validator.validate(policy)
CallValidate ==
    /\ subject.some
    /\ verdict = None
    /\ verdict' = Some(Validate(subject.val))
    /\ UNCHANGED <<docs, netpols, stream, arrived, dry_run, resolver, now, pc, cur,
                   out, inflight, calls, before, prev, failures, rejected,
                   daemonVars, gateVars, subject, resolverVars, unitVars>>

ValidatorNext == CallValidate

ValidatorSpec == ValidatorInit /\ [][ValidatorNext]_vars

(***************************************************************************)
(* What is said about validate: the rules a destination can violate, with  *)
(* the error each of them is reported by.                                  *)
(***************************************************************************)
Validated == subject.some /\ verdict.some

ErrorsReturned == verdict.val.errors

ContainerOf(p) == Get(p, "allowedDestinations", JsonList(<<>>))

Rules == {"name", "ports", "neither", "both", "cidr", "service", "regions"}

Violates(dest, rule) ==
    CASE rule = "name" -> ~Has(dest, "name") \/ dest["name"] = ""
      [] rule = "ports" -> ~Has(dest, "ports") \/ dest["ports"] = <<>>
      [] rule = "neither" -> ~Has(dest, "cidr") /\ ~Has(dest, "awsService")
      [] rule = "both" -> Has(dest, "cidr") /\ Has(dest, "awsService")
      [] rule = "cidr" -> Has(dest, "cidr") /\ ~IpNetworkOk(dest["cidr"])
      [] rule = "service" ->
            /\ Has(dest, "awsService")
            /\ \A v \in VALID_AWS_SERVICES : Lower(dest["awsService"]) # v
      [] rule = "regions" ->
            Has(dest, "awsService") /\ (~Has(dest, "regions") \/ dest["regions"] = <<>>)

\* the error a rule is reported by starts with these words
Reports(e, rule) ==
    LET words == CASE rule = "name" -> "missing 'name' field"
                   [] rule = "ports" -> "missing 'ports' field"
                   [] rule = "neither" -> "must specify either 'cidr' or 'awsService'"
                   [] rule = "both" -> "cannot specify both 'cidr' and 'awsService'"
                   [] rule = "cidr" -> "Invalid CIDR format: "
                   [] rule = "service" -> "Invalid AWS service: "
                   [] rule = "regions" -> "AWS service requires 'regions' field"
    IN  IF rule \in {"cidr", "service"}
        THEN \E rest \in {"not-a-cidr", "invalid-service", "ftp"} : e.what = words \o rest
        ELSE e.what = words

\* the errors returned for destination number i (counted from 0)
ErrorsAbout(i) == {n \in 1..Len(ErrorsReturned) : ErrorsReturned[n].dest = i}

\* C21: validation does not short-circuit.  When allowedDestinations is a
\* list, every rule a destination violates is reported by an error of its own
\* and nothing else is reported for it, the errors follow the order of the
\* destinations, the result is valid exactly when the error list is empty, and
\* a destination without name and without ports has at least two different
\* errors.
C21_NoShortCircuit ==
    (Validated /\ ContainerOf(subject.val).list) =>
        LET items == ContainerOf(subject.val).items
        IN  /\ verdict.val.is_valid <=> (ErrorsReturned = <<>>)
            /\ \A i \in 1..Len(items) : \A rule \in Rules :
                  Violates(items[i], rule) <=>
                      \E n \in ErrorsAbout(i - 1) : Reports(ErrorsReturned[n], rule)
            /\ \A i \in 1..Len(items) :
                  Cardinality(ErrorsAbout(i - 1))
                      = Cardinality({rule \in Rules : Violates(items[i], rule)})
            /\ \A m, n \in 1..Len(ErrorsReturned) :
                  m < n => ErrorsReturned[m].dest <= ErrorsReturned[n].dest
            /\ \A i \in 1..Len(items) :
                  (~Has(items[i], "name") /\ ~Has(items[i], "ports")) =>
                      \E m, n \in ErrorsAbout(i - 1) :
                          ErrorsReturned[m].what # ErrorsReturned[n].what

\* two destinations, the first without name and ports, the second with a bad
\* CIDR: errors about both are returned
C21_Witness ==
    /\ Validated
    /\ ContainerOf(subject.val).list
    /\ Len(ContainerOf(subject.val).items) = 2
    /\ ~Has(ContainerOf(subject.val).items[1], "name")
    /\ ~Has(ContainerOf(subject.val).items[1], "ports")
    /\ Cardinality(ErrorsAbout(0)) >= 2
    /\ Cardinality(ErrorsAbout(1)) >= 1

\* C22: when allowedDestinations is not a list, validate returns at once:
\* the result is invalid and its error list holds a single error, the type
\* error, whatever else the policy contains.
C22_NotAListSingleError ==
    (Validated /\ ~ContainerOf(subject.val).list) =>
        /\ ~verdict.val.is_valid
        /\ ErrorsReturned = <<Err(-1, "allowedDestinations must be a list")>>

\* the error validate reports a defaultAction by
DefaultActionErrors ==
    {n \in 1..Len(ErrorsReturned) :
        /\ ErrorsReturned[n].dest = -1
        /\ \E a \in DefaultActions :
              a.some /\ ErrorsReturned[n].what = "Invalid defaultAction: " \o a.val}

\* C23: for a defaultAction that is a string, validate reports a defaultAction
\* error exactly when the field is present and is neither "allow" nor "deny"
\* as written (so "Allow" is an error); an absent field gives no error.
C23_DefaultActionExact ==
    Validated =>
        LET p == subject.val
        IN  /\ (DefaultActionErrors # {})
                  <=> (Has(p, "defaultAction")
                       /\ p["defaultAction"] # "allow" /\ p["defaultAction"] # "deny")
            /\ Cardinality(DefaultActionErrors) <= 1
            /\ ~Has(p, "defaultAction") => DefaultActionErrors = {}

\* "Allow" is reported, and it is the only error of an otherwise valid policy
C23_Witness ==
    /\ Validated
    /\ Has(subject.val, "defaultAction")
    /\ subject.val["defaultAction"] = "Allow"
    /\ ErrorsReturned = <<Err(-1, "Invalid defaultAction: Allow")>>

\* the errors about destination i whose text is `what`
ErrorsSaying(i, what) == {n \in ErrorsAbout(i) : ErrorsReturned[n].what = what}

NeitherText == "must specify either 'cidr' or 'awsService'"

BothText == "cannot specify both 'cidr' and 'awsService'"

\* name, ports, cidr, service and regions of a destination are acceptable
Acceptable(dest) ==
    /\ Has(dest, "name") /\ dest["name"] # ""
    /\ Has(dest, "ports") /\ dest["ports"] # <<>>
    /\ Has(dest, "cidr") => IpNetworkOk(dest["cidr"])
    /\ Has(dest, "awsService") =>
          /\ \E v \in VALID_AWS_SERVICES : Lower(dest["awsService"]) = v
          /\ Has(dest, "regions") /\ dest["regions"] # <<>>

\* C24: a destination must have exactly one of cidr and awsService.  With
\* neither it gets the "must specify either" error; with both it gets exactly
\* one "cannot specify both" error, which is its only error when the rest of
\* it is acceptable; with exactly one of them it gets neither error.
C24_ExactlyOneTarget ==
    (Validated /\ ContainerOf(subject.val).list) =>
        LET items == ContainerOf(subject.val).items
        IN  \A i \in 1..Len(items) :
                LET has_cidr == Has(items[i], "cidr")
                    has_service == Has(items[i], "awsService")
                    neither == Cardinality(ErrorsSaying(i - 1, NeitherText))
                    both == Cardinality(ErrorsSaying(i - 1, BothText))
                IN  /\ (~has_cidr /\ ~has_service) => (neither = 1 /\ both = 0)
                    /\ (has_cidr /\ has_service) => (both = 1 /\ neither = 0)
                    /\ (has_cidr /\ has_service /\ Acceptable(items[i]))
                          => Cardinality(ErrorsAbout(i - 1)) = 1
                    /\ (has_cidr # has_service) => (neither = 0 /\ both = 0)

\* a destination with a good cidr and a good service: one error, the policy
\* is invalid
C24_Witness ==
    /\ Validated
    /\ ContainerOf(subject.val).list
    /\ Len(ContainerOf(subject.val).items) = 1
    /\ Has(ContainerOf(subject.val).items[1], "cidr")
    /\ Has(ContainerOf(subject.val).items[1], "awsService")
    /\ Acceptable(ContainerOf(subject.val).items[1])
    /\ ErrorsReturned = <<Err(0, BothText)>>
    /\ ~verdict.val.is_valid

\* the six supported services, and the ways of writing each that lower-case
\* to it
SupportedServices == {"s3", "rds", "ec2", "dynamodb", "lambda", "ecs"}

Spellings(name) ==
    CASE name = "s3" -> {"s3", "S3"}
      [] name = "rds" -> {"rds", "RDS"}
      [] name = "ec2" -> {"ec2", "EC2"}
      [] name = "dynamodb" -> {"dynamodb", "DynamoDB"}
      [] OTHER -> {name}

ServiceErrors(i) ==
    {n \in ErrorsAbout(i) :
        \E written \in {"s3", "dynamodb", "DynamoDB", "invalid-service", "ftp", "FTP"} :
            ErrorsReturned[n].what = "Invalid AWS service: " \o written}

RegionsText == "AWS service requires 'regions' field"

\* C25: for a destination with awsService, there is no service error exactly
\* when the value, lower-cased, is one of s3, rds, ec2, dynamodb, lambda, ecs;
\* there is a regions error exactly when regions is missing or empty, whatever
\* the service; so both errors are returned when both rules are violated.
C25_ServiceAndRegions ==
    (Validated /\ ContainerOf(subject.val).list) =>
        LET items == ContainerOf(subject.val).items
        IN  \A i \in 1..Len(items) :
                Has(items[i], "awsService") =>
                    LET supported == \E name \in SupportedServices :
                                         items[i]["awsService"] \in Spellings(name)
                        no_regions == ~Has(items[i], "regions") \/ items[i]["regions"] = <<>>
                    IN  /\ supported <=> ServiceErrors(i - 1) = {}
                        /\ no_regions <=> ErrorsSaying(i - 1, RegionsText) # {}
                        /\ Cardinality(ServiceErrors(i - 1)) <= 1
                        /\ Cardinality(ErrorsSaying(i - 1, RegionsText)) <= 1

\* "FTP" without regions gets both errors, "DynamoDB" without regions only
\* the regions error
C25_Witness ==
    /\ Validated
    /\ ContainerOf(subject.val).list
    /\ Len(ContainerOf(subject.val).items) = 2
    /\ ContainerOf(subject.val).items[1]
          = [name |-> "s3-access", ports |-> <<443>>, awsService |-> "FTP", regions |-> <<>>]
    /\ ContainerOf(subject.val).items[2]
          = [name |-> "s3-access", ports |-> <<443>>, awsService |-> "DynamoDB"]
    /\ ServiceErrors(0) # {} /\ ErrorsSaying(0, RegionsText) # {}
    /\ ServiceErrors(1) = {} /\ ErrorsSaying(1, RegionsText) # {}

(***************************************************************************)
(* AWSServiceResolver on its own: resolve_service_cidrs is called again    *)
(* and again, by one caller, while time passes and the address-range       *)
(* source answers in different ways.                                       *)
(***************************************************************************)
AddressRanges ==
    << [ip_prefix |-> Cidr(52, 216, 0, 0, 15), region |-> "us-east-1", service |-> "S3"],
       [ip_prefix |-> Cidr(52, 92, 0, 0, 17), region |-> "us-west-2", service |-> "S3"],
       [ip_prefix |-> Cidr(3, 5, 0, 0, 19), region |-> "us-west-2", service |-> "EC2"],
       [ip_prefix |-> Cidr(54, 231, 0, 0, 17), region |-> "us-east-1", service |-> "S3"] >>

\* the table after the source has been updated
UpdatedRanges ==
    << [ip_prefix |-> Cidr(16, 15, 0, 0, 16), region |-> "us-east-1", service |-> "S3"],
       [ip_prefix |-> Cidr(3, 5, 0, 0, 19), region |-> "us-west-2", service |-> "EC2"] >>

\* a table with an entry that has no 'ip_prefix', and one that has no 'service'
MalformedRanges ==
    << [ip_prefix |-> Cidr(52, 216, 0, 0, 15), region |-> "us-east-1", service |-> "S3"],
       [region |-> "us-west-2", service |-> "S3"],
       [ip_prefix |-> Cidr(3, 5, 0, 0, 19), region |-> "us-west-2"] >>

\* requests.get raises ("network"), raise_for_status raises ("status"),
\* response.json() raises or yields something that is not a dict ("payload")
FetchError(kind) == [ok |-> FALSE, why |-> kind]

ResolverOutcomes ==
    {Fetched(AddressRanges), Fetched(UpdatedRanges), Fetched(MalformedRanges),
     Fetched(<<>>), FetchError("network"), FetchError("status"), FetchError("payload")}

\* the calls made: (service, regions)
ResolverCalls ==
    { <<"s3", <<"us-east-1">> >>,
      <<"s3", <<"us-east-1", "us-west-2">> >>,
      <<"s3", <<"us-west-2", "us-east-1">> >>,
      <<"ec2", <<"us-east-1">> >> }

RegionSet(regions) == {regions[i] : i \in 1..Len(regions)}

\* what a call is about, whatever the order of its regions
Topic(service, regions) == <<service, RegionSet(regions)>>

HalfHour == CacheTtl \div 2

ResolverStep ==
    UNCHANGED <<docs, netpols, stream, arrived, dry_run, pc, cur, out, inflight,
                calls, before, prev, failures, rejected, daemonVars, gateVars,
                validatorVars, callers, unitVars>>

ResolverInit == AgentInit /\ ~dry_run /\ NoCalls

\* time.time() moves on
Tick ==
    /\ now < CacheTtl + MaxTicks * HalfHour
    /\ now' = now + HalfHour
    /\ ResolverStep
    /\ UNCHANGED <<resolver, request, fetched_at>>

\* cidrs = resolver.resolve_service_cidrs(service, regions)
Resolve(service, regions, fetch) ==
    LET r == ResolveServiceCidrs(resolver, service, regions, now, fetch)
        cache_key == CacheKey(service, regions)
        stored == r.fetched /\ ~FetchRaises(fetch, Upper(service), regions)
    IN  /\ resolver' = r.rs
        /\ request' = Some([service |-> service, regions |-> regions, at |-> now,
                            had |-> IF Has(resolver.cache, cache_key)
                                    THEN Some(resolver.cache[cache_key]) ELSE None,
                            last_fetch |-> resolver.last_fetch,
                            own |-> Get(fetched_at, Topic(service, regions), None),
                            fetch |-> IF r.fetched THEN Some(fetch) ELSE None,
                            cidrs |-> r.cidrs])
        /\ fetched_at' = IF stored
                         THEN (Topic(service, regions) :> Some([at |-> now, cidrs |-> r.cidrs]))
                              @@ fetched_at
                         ELSE fetched_at
        /\ ResolverStep
        /\ UNCHANGED now

ResolverNext ==
    \/ Tick
    \/ \E c \in ResolverCalls : \E fetch \in ResolverOutcomes : Resolve(c[1], c[2], fetch)

ResolverSpec == ResolverInit /\ [][ResolverNext]_vars

(***************************************************************************)
(* What is said about resolve_service_cidrs.  Of the last call: `own` is   *)
(* the last fetch that succeeded for the same service and set of regions   *)
(* (when, and what it gave), `last_fetch` and `had` are the time stamp and *)
(* the cache entry the call found, `fetch` the answer to the request it    *)
(* made, if it made one.                                                   *)
(***************************************************************************)
Called == request.some

\* the call fetched, and the fetch failed
FetchFailedIn(q) ==
    /\ q.fetch.some
    /\ \/ ~q.fetch.val.ok
       \/ \E i \in 1..Len(q.fetch.val.prefixes) :
             LET p == q.fetch.val.prefixes[i]
             IN  /\ "service" \in DOMAIN p /\ "region" \in DOMAIN p
                 /\ p.service = (IF q.service = "s3" THEN "S3" ELSE "EC2")
                 /\ p.region \in RegionSet(q.regions)
                 /\ "ip_prefix" \notin DOMAIN p

\* the call fetched, and the fetch succeeded
FetchSucceededIn(q) == q.fetch.some /\ ~FetchFailedIn(q)

\* C26: for one key (no other key has been fetched since this key's last
\* successful fetch): a call made less than the freshness window after that
\* fetch makes no request and returns what that fetch gave, an empty list
\* included; a call made when the window has passed makes a new request.
C26_CachedWithinWindow ==
    Called =>
        LET q == request.val
        IN  (q.own.some /\ q.last_fetch = q.own.val.at) =>
                /\ (q.at - q.own.val.at < CacheTtl)
                      => (~q.fetch.some /\ q.cidrs = q.own.val.cidrs)
                /\ (q.at - q.own.val.at >= CacheTtl) => q.fetch.some

\* half an hour after a fetch that gave nothing, the empty list is returned
\* and no request is made
C26_Witness ==
    /\ Called
    /\ request.val.own.some
    /\ request.val.last_fetch = request.val.own.val.at
    /\ request.val.at = request.val.own.val.at + HalfHour
    /\ request.val.own.val.cidrs = <<>>
    /\ ~request.val.fetch.some
    /\ request.val.cidrs = <<>>

\* C27: freshness is per key.  A call is served from the cache, without a
\* request, only if the last successful fetch of its own key is less than the
\* freshness window old, whatever calls were made for other keys in between.
C27_FreshnessPerKey ==
    Called =>
        LET q == request.val
        IN  ~q.fetch.some => (q.own.some /\ q.at - q.own.val.at < CacheTtl)

\* C28: when the request fails (network error, status that is not 2xx,
\* payload that is not the expected JSON, matching entry without ip_prefix),
\* the call returns the empty list.
C28_FetchFailureGivesEmpty ==
    Called => (FetchFailedIn(request.val) => request.val.cidrs = <<>>)

\* the key had an entry with addresses, it is stale, the request fails on a
\* malformed entry: the call returns the empty list
C28_Witness ==
    /\ Called
    /\ FetchFailedIn(request.val)
    /\ request.val.fetch.val.ok
    /\ request.val.had.some
    /\ request.val.had.val # <<>>
    /\ request.val.cidrs = <<>>

\* the addresses of the entries of a table that are about the service and one
\* of the regions, in the order of the table
RECURSIVE Matching(_, _, _)
Matching(prefixes, service, regions) ==
    IF prefixes = <<>> THEN <<>>
    ELSE LET p == Head(prefixes)
             about == /\ "service" \in DOMAIN p /\ "region" \in DOMAIN p
                      /\ p.service = (IF service = "s3" THEN "S3" ELSE "EC2")
                      /\ p.region \in RegionSet(regions)
         IN  (IF about THEN <<p.ip_prefix>> ELSE <<>>)
             \o Matching(Tail(prefixes), service, regions)

\* C29: a call that finds no entry for its key, or a stale time stamp, makes
\* a request; when the request succeeds the call returns the matching
\* addresses of the fetched table in table order, and that list is then the
\* cache entry of the key, under whatever order the regions are given in.
C29_MissFetchesAndStores ==
    Called =>
        LET q == request.val
        IN  /\ (~q.had.some \/ q.at - q.last_fetch >= CacheTtl) => q.fetch.some
            /\ FetchSucceededIn(q) =>
                  /\ q.cidrs = Matching(q.fetch.val.prefixes, q.service, q.regions)
                  /\ \A c \in ResolverCalls :
                        Topic(c[1], c[2]) = Topic(q.service, q.regions) =>
                            /\ Has(resolver.cache, CacheKey(c[1], c[2]))
                            /\ resolver.cache[CacheKey(c[1], c[2])] = q.cidrs

\* a stale entry for two regions is replaced by what the updated table gives
C29_Witness ==
    /\ Called
    /\ Len(request.val.regions) = 2
    /\ request.val.had.some
    /\ request.val.had.val = <<Cidr(52, 216, 0, 0, 15), Cidr(52, 92, 0, 0, 17),
                               Cidr(54, 231, 0, 0, 17)>>
    /\ FetchSucceededIn(request.val)
    /\ request.val.cidrs = <<Cidr(16, 15, 0, 0, 16)>>
    /\ resolver.cache[CacheKey("s3", <<"us-west-2", "us-east-1">>)] = <<Cidr(16, 15, 0, 0, 16)>>

(***************************************************************************)
(* AWSServiceResolver called by several threads.  The class holds no lock, *)
(* so the statements of resolve_service_cidrs run interleaved: the check   *)
(* of the cache (lines 100-104), the request and the filtering (107-118),  *)
(* the store of the entry (121), the store of the time stamp (122).  Each  *)
(* thread makes one call; `log` lists the stores in the order they happen. *)
(***************************************************************************)
Callers == 1..MaxCallers

IdleCaller == [pc |-> "idle", service |-> "", regions |-> <<>>, cidrs |-> <<>>]

ConcurrentOutcomes == {Fetched(AddressRanges), Fetched(UpdatedRanges), FetchError("network")}

ConcurrentInit ==
    /\ AgentInit
    /\ ~dry_run
    /\ subject = None
    /\ verdict = None
    /\ request = None
    /\ fetched_at = EmptyDict
    /\ callers = [thread |-> [c \in Callers |-> IdleCaller], log |-> <<>>]
    /\ NothingGiven

ConcurrentStep ==
    UNCHANGED <<docs, netpols, stream, arrived, dry_run, now, pc, cur, out, inflight,
                calls, before, prev, failures, rejected, daemonVars, gateVars,
                validatorVars, request, fetched_at, unitVars>>

\* lines 100-104: the key is computed and the cache is checked
Enter(c, service, regions) ==
    LET cache_key == CacheKey(service, regions)
        hit == Has(resolver.cache, cache_key) /\ (now - resolver.last_fetch) < CacheTtl
    IN  /\ callers.thread[c].pc = "idle"
        /\ callers' = [callers EXCEPT !.thread[c] =
                          [pc |-> IF hit THEN "done" ELSE "fetching",
                           service |-> service, regions |-> regions,
                           cidrs |-> IF hit THEN resolver.cache[cache_key] ELSE <<>>]]
        /\ UNCHANGED resolver
        /\ ConcurrentStep

\* lines 107-118, 127-129: the request is answered and the table filtered
Responded(c, fetch) ==
    LET me == callers.thread[c]
    IN  /\ me.pc = "fetching"
        /\ callers' = [callers EXCEPT !.thread[c] =
                          IF FetchRaises(fetch, Upper(me.service), me.regions)
                          THEN [me EXCEPT !.pc = "done", !.cidrs = <<>>]
                          ELSE [me EXCEPT !.pc = "storing",
                                          !.cidrs = FilterPrefixes(fetch.prefixes,
                                                                   Upper(me.service),
                                                                   me.regions)]]
        /\ UNCHANGED resolver
        /\ ConcurrentStep

\* line 121: self._cache[cache_key] = cidrs
StoreEntry(c) ==
    LET me == callers.thread[c]
        cache_key == CacheKey(me.service, me.regions)
    IN  /\ me.pc = "storing"
        /\ resolver' = [resolver EXCEPT !.cache = (cache_key :> me.cidrs) @@ resolver.cache]
        /\ callers' = [callers EXCEPT !.thread[c].pc = "stamping",
                                      !.log = Append(@, [by |-> c, what |-> "entry",
                                                         key |-> cache_key])]
        /\ ConcurrentStep

\* lines 122-125: self._last_fetch = time.time(); return cidrs
StoreStamp(c) ==
    LET me == callers.thread[c]
    IN  /\ me.pc = "stamping"
        /\ resolver' = [resolver EXCEPT !.last_fetch = now]
        /\ callers' = [callers EXCEPT !.thread[c].pc = "done",
                                      !.log = Append(@, [by |-> c, what |-> "stamp",
                                                         key |-> CacheKey(me.service,
                                                                          me.regions)])]
        /\ ConcurrentStep

ConcurrentNext ==
    \/ \E c \in Callers : \E q \in ResolverCalls : Enter(c, q[1], q[2])
    \/ \E c \in Callers : \E fetch \in ConcurrentOutcomes : Responded(c, fetch)
    \/ \E c \in Callers : StoreEntry(c)
    \/ \E c \in Callers : StoreStamp(c)

ConcurrentSpec == ConcurrentInit /\ [][ConcurrentNext]_vars

\* the threads that have checked the cache and not yet stored the time stamp
InCall == {c \in Callers : callers.thread[c].pc \in {"fetching", "storing", "stamping"}}

\* the thread that made the last store of kind `what` for `key`, 0 if none
LastStore(what, key) ==
    LET at == {n \in 1..Len(callers.log) :
                  callers.log[n].what = what /\ callers.log[n].key = key}
    IN  IF at = {} THEN 0
        ELSE callers.log[CHOOSE n \in at : \A m \in at : m <= n].by

\* C30: calls made by several threads are serialized.  At most one call is
\* between its check of the cache and its store of the time stamp, and when
\* no call is under way the entry of every key and the last time stamp
\* stored for that key were written by the same call.
C30_CallsSerialized ==
    /\ Cardinality(InCall) <= 1
    /\ InCall = {} =>
          \A n \in 1..Len(callers.log) :
              LastStore("entry", callers.log[n].key) = LastStore("stamp", callers.log[n].key)

(***************************************************************************)
(* EKSSecurityHealthAgent.calculate_health_score (src/security_agent.py),  *)
(* called once with counts of findings.  Python integers do not overflow.  *)
(***************************************************************************)
Max(a, b) == IF a >= b THEN a ELSE b

\* a score without the final max(0, ...)
calculate_health_score_unclamped(critical, high, medium) ==
    LET base_score_0 == 100
        base_score_1 == base_score_0 - critical * 20
        base_score_2 == base_score_1 - high * 10
        base_score_3 == base_score_2 - medium * 5
    IN  base_score_3

calculate_health_score(critical, high, medium) ==
    LET base_score_0 == 100
        base_score_1 == base_score_0 - critical * 20
        base_score_2 == base_score_1 - high * 10
        base_score_3 == base_score_2 - medium * 5
    IN  Max(0, base_score_3)

HealthInit ==
    /\ AgentInit
    /\ ~dry_run
    /\ subject = None
    /\ verdict = None
    /\ request = None
    /\ fetched_at = EmptyDict
    /\ callers = <<>>
    /\ document = None
    /\ translated = None
    /\ twin = None
    /\ counts \in {Some([critical |-> c, high |-> h, medium |-> m]) :
                      c \in 0..MaxCount, h \in 0..MaxCount, m \in 0..MaxCount}
    /\ score = None

\* self.calculate_health_score(critical_count, high_count, medium_count)
CallHealthScore ==
    /\ counts.some
    /\ score = None
    /\ score' = Some(calculate_health_score(counts.val.critical, counts.val.high,
                                            counts.val.medium))
    /\ UNCHANGED <<docs, netpols, stream, arrived, dry_run, resolver, now, pc, cur,
                   out, inflight, calls, before, prev, failures, rejected,
                   daemonVars, gateVars, validatorVars, resolverVars,
                   document, translated, twin, counts>>

HealthNext == CallHealthScore

HealthSpec == HealthInit /\ [][HealthNext]_vars

\* C35: for counts that are not negative the score is
\* max(0, 100 - 20*critical - 10*high - 5*medium): it lies in 0..100, it is
\* 100 exactly when the three counts are zero, and it is 0, not less, when
\* the deductions exceed 100.
C35_HealthScoreClamped ==
    (counts.some /\ score.some) =>
        LET c == counts.val.critical
            h == counts.val.high
            m == counts.val.medium
            deducted == 100 - 20 * c - 10 * h - 5 * m
        IN  /\ score.val = (IF deducted < 0 THEN 0 ELSE deducted)
            /\ score.val \in 0..100
            /\ (score.val = 100) <=> (c = 0 /\ h = 0 /\ m = 0)
            /\ (20 * c + 10 * h + 5 * m >= 100) => score.val = 0

\* calculate_health_score(10, 10, 10) is 0
C35_Witness ==
    /\ counts = Some([critical |-> 10, high |-> 10, medium |-> 10])
    /\ score = Some(0)

(***************************************************************************)
(* EgressAgent.generate_network_policy on its own: one managed document is *)
(* translated by an agent just constructed, and the same document is sent  *)
(* to the webhook.  `twin` is what agents constructed alike make of the    *)
(* same policy with defaultAction "allow", "deny", or left out.            *)
(***************************************************************************)
TranslateDestinations ==
    { [name |-> "onprem-db", cidr |-> Cidr(10, 1, 100, 0, 24), ports |-> <<5432>>],
      [name |-> "wide", cidr |-> Cidr(10, 0, 0, 0, 8), ports |-> <<0, 70000>>],
      [name |-> "s3-access", awsService |-> "s3", regions |-> <<"us-east-1">>,
       ports |-> <<443>>],
      [name |-> "s3-both", awsService |-> "S3",
       regions |-> <<"us-west-2", "us-east-1">>, ports |-> <<443, 8443>>],
      [name |-> "ec2-east", awsService |-> "ec2", regions |-> <<"us-east-1">>,
       ports |-> <<22>>],
      [cidr |-> Cidr(10, 1, 0, 0, 16)] }

TranslateActions == {None, Some("allow"), Some("permit")}

TranslateTexts ==
    {Text(JsonObject(Policy(a, Some(JsonList(items))))) :
        a \in TranslateActions,
        items \in UNION {[1..n -> TranslateDestinations] : n \in 0..MaxDestinations}}
    \cup {GarbageText, BlankText, Text(JsonOther)}

TranslateData == {Payload(text) : text \in TranslateTexts} \cup {OtherData}

\* a document, with the answer of the address-range source to each request
Documents ==
    UNION {{[namespace |-> namespace, data |-> data, fetches |-> fetches] :
               namespace \in Namespaces, fetches \in FetchPlans(data)} :
           data \in TranslateData}

\* the data with the defaultAction of its policy set to `action`, or removed
WithDefaultAction(data, action) ==
    LET parsed == JsonLoads(Get(data, "policy.json", EmptyObjectText))
    IN  IF ~(parsed.ok /\ parsed.isobj) THEN data
        ELSE LET rest == [k \in DOMAIN parsed.obj \ {"defaultAction"} |-> parsed.obj[k]]
             IN  Payload(Text(JsonObject(
                     (IF action.some THEN ("defaultAction" :> action.val) ELSE EmptyDict)
                     @@ rest)))

\* a policy without its defaultAction
WithoutDefaultAction(policy) == [k \in DOMAIN policy \ {"defaultAction"} |-> policy[k]]

TwinActions == {None, Some("allow"), Some("deny")}

TranslateInit ==
    /\ AgentInit
    /\ ~dry_run
    /\ subject = None
    /\ verdict = None
    /\ request = None
    /\ fetched_at = EmptyDict
    /\ callers = <<>>
    /\ document \in {Some(d) : d \in Documents}
    /\ translated = None
    /\ twin = None
    /\ counts = None
    /\ score = None

TranslateStep ==
    UNCHANGED <<docs, netpols, stream, arrived, dry_run, now, pc, cur, out, inflight,
                calls, before, prev, failures, rejected, daemonVars, gateVars,
                validatorVars, resolverVars, document, counts, score>>

\* the loop of lines 187-191, destination by destination: the rule each
\* destination gave and, for a service, what the resolver returned
RECURSIVE DestinationTrace(_, _, _, _, _)
DestinationTrace(items, i, rs, t, fetches) ==
    IF i > Len(items) THEN <<>>
    ELSE LET one == CreateEgressRule(items[i], rs, t, fetches[i])
             resolved ==
                 IF ~Has(items[i], "cidr") /\ Has(items[i], "awsService")
                 THEN Some(ResolveServiceCidrs(rs, Lower(items[i]["awsService"]),
                                               Get(items[i], "regions", <<>>), t,
                                               fetches[i]).cidrs)
                 ELSE None
         IN  <<[rule |-> one.rule, resolved |-> resolved]>>
             \o DestinationTrace(items, i + 1, one.rs, t, fetches)

\* network_policy = self.generate_network_policy(namespace, configmap.data);
\* the loop gets the document once the webhook has answered, whatever the
\* answer was
CallGenerate ==
    /\ document.some
    /\ gate[1].pc = "done"
    /\ translated = None
    /\ LET d == document.val
           r == GenerateNetworkPolicy(d.namespace, d.data, resolver, now, d.fetches)
           parsed == JsonLoads(Get(d.data, "policy.json", EmptyObjectText))
       IN  /\ translated' =
                 Some([raised |-> r.raised, np |-> r.np,
                       trace |-> IF r.np.some
                                 THEN DestinationTrace(
                                          Get(parsed.obj, "allowedDestinations",
                                              JsonList(<<>>)).items,
                                          1, resolver, now, d.fetches)
                                 ELSE <<>>])
           /\ resolver' = r.rs
           /\ twin' = Some([a \in TwinActions |->
                               LET g == GenerateNetworkPolicy(d.namespace,
                                                              WithDefaultAction(d.data, a),
                                                              resolver, now, d.fetches)
                               IN  [raised |-> g.raised, np |-> g.np]])
    /\ TranslateStep

\* the document is sent to the webhook for admission
Admission ==
    /\ document.some
    /\ gate[1].pc = "idle"
    /\ Receive(1, AdmissionReview("uid-1", Candidate(ManagedLabels, document.val.data)))

TranslateNext ==
    \/ CallGenerate
    \/ Admission
    \/ ValidateBegin(1)
    \/ ValidateEnd(1)
    \/ Respond(1)

TranslateSpec == TranslateInit /\ [][TranslateNext]_vars

(***************************************************************************)
(* What is said about generate_network_policy.                             *)
(***************************************************************************)
Translated == document.some /\ translated.some

\* the payload the translation reads: policy.json, "{}" when there is none
PayloadRead == JsonLoads(Get(document.val.data, "policy.json", EmptyObjectText))

\* the payload is a policy, and the validator accepts it
ValidPolicyRead ==
    /\ PayloadRead.ok
    /\ PayloadRead.isobj
    /\ Validate(PayloadRead.obj).is_valid

\* the destinations of the policy read
DestinationsRead == ContainerOf(PayloadRead.obj).items

RulesMade == translated.val.np.val.spec.egress

\* C31: generate_network_policy raises ValueError and returns no
\* NetworkPolicy when the payload is not JSON and when the validator rejects
\* the policy; it returns a NetworkPolicy only for a policy the validator
\* accepts.
C31_InvalidPolicyRaises ==
    Translated =>
        /\ ~PayloadRead.ok
              => (translated.val.raised = "ValueError" /\ ~translated.val.np.some)
        /\ (PayloadRead.ok /\ PayloadRead.isobj /\ ~Validate(PayloadRead.obj).is_valid)
              => (translated.val.raised = "ValueError" /\ ~translated.val.np.some)
        /\ translated.val.np.some => (ValidPolicyRead /\ translated.val.raised = "")
        /\ translated.val.np.some \/ translated.val.raised # ""

\* a policy with a destination that has no name and no ports is rejected
C31_Witness ==
    /\ Translated
    /\ PayloadRead.ok /\ PayloadRead.isobj
    /\ Len(DestinationsRead) = 2
    /\ DestinationsRead[2] = [cidr |-> Cidr(10, 1, 0, 0, 16)]
    /\ translated.val.raised = "ValueError"
    /\ ~translated.val.np.some

\* the ports of a destination as the ports of a rule
TcpPorts(ports) == [j \in 1..Len(ports) |-> [protocol |-> "TCP", port |-> ports[j]]]

\* the rule for one address and the ports of a destination
RuleFor(address, dest) ==
    [to |-> <<[ipBlock |-> [cidr |-> address]]>>, ports |-> TcpPorts(dest["ports"])]

IsCidrDestination(dest) == "cidr" \in DOMAIN dest

\* C32: every CIDR destination of a valid policy gives exactly one rule, to
\* that CIDR as written and to the destination's ports over TCP; a policy of
\* CIDR destinations only has one rule per destination, so a policy with one
\* CIDR destination has exactly one rule; the rule set is named
\* egress-policy-generated and is in the namespace given.
C32_CidrDestinationOneRule ==
    (Translated /\ translated.val.np.some) =>
        LET dests == DestinationsRead
            np == translated.val.np.val
        IN  /\ Len(translated.val.trace) = Len(dests)
            /\ \A i \in 1..Len(dests) :
                  IsCidrDestination(dests[i]) =>
                      /\ translated.val.trace[i].rule
                            = Some(RuleFor(dests[i]["cidr"], dests[i]))
                      /\ \E n \in 1..Len(RulesMade) :
                            RulesMade[n] = RuleFor(dests[i]["cidr"], dests[i])
            /\ (\A i \in 1..Len(dests) : IsCidrDestination(dests[i])) =>
                  RulesMade = [i \in 1..Len(dests) |-> RuleFor(dests[i]["cidr"], dests[i])]
            /\ np.metadata.name = "egress-policy-generated"
            /\ np.metadata.namespace = document.val.namespace

\* one CIDR destination, one rule, in tenant-b
C32_Witness ==
    /\ Translated
    /\ translated.val.np.some
    /\ document.val.namespace = "tenant-b"
    /\ DestinationsRead
          = <<[name |-> "onprem-db", cidr |-> Cidr(10, 1, 100, 0, 24), ports |-> <<5432>>]>>
    /\ RulesMade = <<[to |-> <<[ipBlock |-> [cidr |-> Cidr(10, 1, 100, 0, 24)]]>>,
                     ports |-> <<[protocol |-> "TCP", port |-> 5432]>>]>>
    /\ translated.val.np.val.metadata.name = "egress-policy-generated"

IsServiceDestination(dest) == "cidr" \notin DOMAIN dest /\ "awsService" \in DOMAIN dest

\* C33: a valid policy always translates, whatever the resolver does.  A
\* service destination gives no rule when the resolver returned nothing (also
\* when its request failed), and otherwise exactly one rule, to the first
\* address returned and to the destination's ports.
C33_ServiceDestinationFirstAddress ==
    Translated =>
        /\ ValidPolicyRead => (translated.val.np.some /\ translated.val.raised = "")
        /\ translated.val.np.some =>
              \A i \in 1..Len(DestinationsRead) :
                  IsServiceDestination(DestinationsRead[i]) =>
                      LET got == translated.val.trace[i]
                      IN  /\ got.resolved.some
                          /\ got.resolved.val = <<>> => got.rule = None
                          /\ got.resolved.val # <<>> =>
                                got.rule = Some(RuleFor(got.resolved.val[1],
                                                        DestinationsRead[i]))

\* the request of the first destination fails and it gives no rule; the
\* second resolves to two addresses and gives one rule, to the first of them
C33_Witness ==
    /\ Translated
    /\ translated.val.np.some
    /\ Len(DestinationsRead) = 2
    /\ IsServiceDestination(DestinationsRead[1])
    /\ document.val.fetches[1] = FetchFailed
    /\ translated.val.trace[1].resolved = Some(<<>>)
    /\ translated.val.trace[1].rule = None
    /\ IsServiceDestination(DestinationsRead[2])
    /\ translated.val.trace[2].resolved
          = Some(<<Cidr(52, 216, 0, 0, 15), Cidr(54, 231, 0, 0, 17)>>)
    /\ RulesMade = <<RuleFor(Cidr(52, 216, 0, 0, 15), DestinationsRead[2])>>

\* the rules of the destinations from the i-th on, in their order, without
\* the destinations that gave none
RECURSIVE RulesFrom(_, _)
RulesFrom(trace, i) ==
    IF i > Len(trace) THEN <<>>
    ELSE (IF trace[i].rule.some THEN <<trace[i].rule.val>> ELSE <<>>)
         \o RulesFrom(trace, i + 1)

\* C34: the rules of the generated rule set are the rules of the destinations
\* in the order of the destinations, the destinations that gave no rule left
\* out; there are never more rules than destinations.
C34_RulesInDestinationOrder ==
    (Translated /\ translated.val.np.some) =>
        /\ RulesMade = RulesFrom(translated.val.trace, 1)
        /\ Len(RulesMade) <= Len(DestinationsRead)

\* two destinations with different rules, in the order given
C34_Witness ==
    /\ Translated
    /\ translated.val.np.some
    /\ Len(DestinationsRead) = 2
    /\ IsServiceDestination(DestinationsRead[1])
    /\ IsCidrDestination(DestinationsRead[2])
    /\ Len(RulesMade) = 2
    /\ RulesMade[1] = RuleFor(Cidr(52, 216, 0, 0, 15), DestinationsRead[1])
    /\ RulesMade[2] = RuleFor(DestinationsRead[2]["cidr"], DestinationsRead[2])
    /\ RulesMade[1] # RulesMade[2]

\* C36: the webhook and the loop agree on every managed document: the webhook
\* allows the document exactly when generate_network_policy returns a
\* NetworkPolicy for the same data.
C36_GateAndLoopAgree ==
    (Translated /\ GateDone(1)) =>
        (AllowedBy(1) <=> (translated.val.raised = "" /\ translated.val.np.some))

\* the same, for the documents that have a policy.json
AgreeOnDocumentsWithPayload ==
    (Translated /\ GateDone(1) /\ Has(document.val.data, "policy.json")) =>
        (AllowedBy(1) <=> (translated.val.raised = "" /\ translated.val.np.some))

(***************************************************************************)
(* resolve_service_cidrs called again after a request that failed.  Of     *)
(* each call it is also kept whether it left the resolver as it found it,  *)
(* and for which keys the last call made a request that failed.            *)
(***************************************************************************)
RefreshCalls == { <<"s3", <<"us-east-1">> >>, <<"ec2", <<"us-east-1">> >> }

RefreshOutcomes == {Fetched(AddressRanges), Fetched(UpdatedRanges), FetchError("network")}

\* the keys whose last call made a request that failed
FailedBefore == IF request.some THEN request.val.failed ELSE {}

\* cidrs = resolver.resolve_service_cidrs(service, regions)
Refresh(service, regions, fetch) ==
    LET r == ResolveServiceCidrs(resolver, service, regions, now, fetch)
        cache_key == CacheKey(service, regions)
        fails == r.fetched /\ FetchRaises(fetch, Upper(service), regions)
    IN  /\ resolver' = r.rs
        /\ request' = Some([service |-> service, regions |-> regions, at |-> now,
                            had |-> IF Has(resolver.cache, cache_key)
                                    THEN Some(resolver.cache[cache_key]) ELSE None,
                            last_fetch |-> resolver.last_fetch,
                            fetch |-> IF r.fetched THEN Some(fetch) ELSE None,
                            cidrs |-> r.cidrs,
                            unchanged |-> r.rs = resolver,
                            retry |-> Topic(service, regions) \in FailedBefore,
                            failed |-> IF fails
                                       THEN FailedBefore \cup {Topic(service, regions)}
                                       ELSE FailedBefore \ {Topic(service, regions)}])
        /\ ResolverStep
        /\ UNCHANGED <<now, fetched_at>>

RefreshNext ==
    \/ Tick
    \/ \E c \in RefreshCalls : \E fetch \in RefreshOutcomes : Refresh(c[1], c[2], fetch)

RefreshSpec == ResolverInit /\ [][RefreshNext]_vars

\* a call whose request failed left the cache and the time stamp as they
\* were and returned the empty list, whatever entry the key had
FailedFetchChangesNothing ==
    Called => (FetchFailedIn(request.val) =>
                  (request.val.unchanged /\ request.val.cidrs = <<>>))

\* C37: a call whose request fails leaves the resolver as it found it (no
\* entry added, replaced or removed, time stamp not advanced) and returns the
\* empty list, not the stale entry of the key; the next call for that key
\* makes a request again.
C37_FailedFetchLeavesStateAndRetries ==
    /\ FailedFetchChangesNothing
    /\ Called => (request.val.retry => request.val.fetch.some)

\* the same, when the next call for the key is also the next call made
RetriesWhenNothingFetchedBetween ==
    [][(/\ request.some /\ request'.some
        /\ FetchFailedIn(request.val)
        /\ Topic(request'.val.service, request'.val.regions)
              = Topic(request.val.service, request.val.regions))
       => request'.val.fetch.some]_vars

\* the destinations of the policy read are all acceptable to the validator
DestinationsAccepted ==
    /\ PayloadRead.ok
    /\ PayloadRead.isobj
    /\ Validate(WithoutDefaultAction(PayloadRead.obj)).is_valid

\* C38: the rule set does not depend on defaultAction.  The same policy with
\* defaultAction allow, deny or absent translates to the same result, for a
\* valid policy to the very rule set generated; every rule set generated has
\* the one policy type Egress and an empty pod selector.
C38_IndependentOfDefaultAction ==
    Translated =>
        /\ \A a, b \in TwinActions : twin.val[a] = twin.val[b]
        /\ DestinationsAccepted =>
              \A a \in TwinActions :
                  /\ twin.val[a].raised = "" /\ twin.val[a].np.some
                  /\ translated.val.np.some => twin.val[a].np = translated.val.np
        /\ \A a \in TwinActions :
              twin.val[a].np.some =>
                  /\ twin.val[a].np.val.spec.policyTypes = <<"Egress">>
                  /\ twin.val[a].np.val.spec.podSelector = EmptyDict
        /\ translated.val.np.some =>
              /\ translated.val.np.val.spec.policyTypes = <<"Egress">>
              /\ translated.val.np.val.spec.podSelector = EmptyDict

\* a policy with defaultAction allow and two rules: the same rule set as with
\* deny and as without defaultAction
C38_Witness ==
    /\ Translated
    /\ ValidPolicyRead
    /\ Get(PayloadRead.obj, "defaultAction", "") = "allow"
    /\ Len(RulesMade) = 2
    /\ twin.val[Some("deny")].np = translated.val.np
    /\ twin.val[None].np = translated.val.np
    /\ twin.val[Some("allow")].np = translated.val.np

\* C39: handling an event of a document in one namespace changes no rule set
\* of another namespace: from the moment the event is taken, the rule sets of
\* every other namespace are what they were, whether the handler creates,
\* patches or deletes.
C39_OtherNamespacesUntouched ==
    cur.some =>
        \A namespace \in Namespaces \ {CurNs} :
            RuleSetsIn(netpols, namespace) = RuleSetsIn(before, namespace)

\* an event in tenant-b has changed the rule sets of tenant-b while tenant-a
\* holds a rule set
C39_Witness ==
    /\ Handled
    /\ CurManaged
    /\ CurNs = "tenant-b"
    /\ RuleSetsIn(before, "tenant-a") # {}
    /\ RuleSetsIn(netpols, "tenant-b") # RuleSetsIn(before, "tenant-b")
    /\ RuleSetsIn(netpols, "tenant-a") = RuleSetsIn(before, "tenant-a")

\* the ports of the rules of the rule set generated
PortsMade ==
    UNION {{RulesMade[n].ports[j].port : j \in 1..Len(RulesMade[n].ports)} :
              n \in 1..Len(RulesMade)}

\* C40: every port of every rule of a rule set generated is in 1..65535: no
\* policy with a port out of that range passes the validator and the
\* translation.
C40_PortsInRange ==
    (Translated /\ translated.val.np.some) => PortsMade \subseteq 1..65535

====
